---- MODULE Spec2Model ----
(***************************************************************************)
(* The block pipeline of idencomp's IDN container: the sequence batcher,   *)
(* the thread pool with its shared error slot, the block-ordering lock,    *)
(* the data queue, the block writer and the block reader.                  *)
(*                                                                         *)
(* Threads take one step per access to shared state (a mutex-protected     *)
(* section is one step); code that only touches a thread's own data is     *)
(* folded into the step that follows it.                                   *)
(***************************************************************************)
EXTENDS Naturals, Sequences, FiniteSets, TLC

\* ------------------------------------------------------------------ bounds
\* Number of add_sequence calls made on one compressor.
MaxSeqs == 3
\* Largest thread_num given to a compressor or decompressor.
MaxThreads == 3
\* Number of writes of the output stream that may fail with an I/O error.
MaxIoFail == 1
\* Number of frames before the end of a hand-made input stream.
MaxFrames == 2

VARIABLES
    phase,        \* "compress" or "decompress": which front-end is alive
    threadNum,    \* ThreadPool::thread_num of the parent pool
    maxLen,       \* IdnCompressor::max_block_total_len
    inclIds,      \* IdnCompressor::include_identifiers
    block,        \* IdnCompressor::block
    blockLength,  \* IdnCompressor::block_length
    nCalls,       \* number of add_sequence calls made so far
    submitted,    \* the sequences add_sequence accepted, in order
    dq,           \* DataQueueState: data, finished
    queue,        \* jobs waiting in threadpool::ThreadPool
    running,      \* jobs a pool thread is executing
    errorSlot,    \* ErrorReceiver::error
    childNum,     \* ThreadPool::child_num
    lockCur,      \* IdnBlockLock::current_block
    disp,         \* IdnCompressorInner / IdnDecompressorInner
    caller,       \* the thread calling the public API
    results,      \* what each public call returned, in order
    output,       \* what has reached the compressor's writer
    ioFails,      \* number of failed writes so far
    failLog,      \* the errors handed to set_error, in order
    stream,       \* the decompressor's input: a list of frames
    seqsToGet,    \* IdnDecompressor::sequences_to_get (next first)
    eofReached,   \* IdnDecompressor::eof_reached
    returned,     \* the sequences next_sequence returned, in order
    appendLog,    \* <<block index, sequence>> for every queue append
    nodes,        \* bin_contexts_nodes / ContextTree: the vector of ContextNode
    available,    \* bin_contexts_nodes: available[i] for node i
    mergeQueue,   \* bin_contexts_nodes: the BinaryHeap of QueuedNode
    num_contexts, \* ContextTree::traverse: its argument
    openQueue,    \* ContextTree::traverse: the BinaryHeap of IndexedContextNode
    result,       \* ContextTree::traverse: the ComplexContexts collected
    binPc,        \* where context binning stands
    centroids,    \* Clustering::make_clusters: the indices of `centroids`
    values,       \* Clustering::make_clusters: the indices of `values`
    cost,         \* ClusterCostCalculator::cost_for, as a table
    num_clusters, \* Clustering::make_clusters: its argument, then the local
    best_centroids,       \* Clustering::make_clusters
    centroids_available,  \* Clustering::make_clusters
    value_clusters,       \* Clustering::make_clusters
    clusters,     \* what make_clusters returned
    rounds,       \* make_clusters: the states its loop went through
    clPc,         \* where make_clusters stands
    model,        \* Model: its context_spec_type and its number of contexts
    ransModel,    \* RansEncModel / RansDecModel built from `model`
    generator,    \* the ContextSpecGenerator of the sequence being coded
    intQueue,     \* an IntQueue<MAX_SINGLE_VAL, LENGTH> taken on its own
    queueLog,     \* the calls made on intQueue and what they returned
    blockEnc,     \* an IdnBlockCompressor staging the slices of its block
    blockDec      \* an IdnBlockDecompressor reading those slices

vars == <<phase, threadNum, maxLen, inclIds, block, blockLength, nCalls,
          submitted, dq, queue, running, errorSlot, childNum, lockCur, disp,
          caller, results, output, ioFails, failLog, stream, seqsToGet,
          eofReached, returned, appendLog, nodes, available, mergeQueue,
          num_contexts, openQueue, result, binPc, centroids, values, cost,
          num_clusters, best_centroids, centroids_available, value_clusters,
          clusters, rounds, clPc, model, ransModel, generator, intQueue,
          queueLog, blockEnc, blockDec>>

compVars == <<maxLen, inclIds, block, blockLength, nCalls, submitted,
              output, ioFails>>
decVars == <<stream, seqsToGet, eofReached, returned, appendLog>>
binVars == <<nodes, available, mergeQueue, num_contexts, openQueue, result,
             binPc>>
clusterVars == <<centroids, values, cost, num_clusters, best_centroids,
                 centroids_available, value_clusters, clusters, rounds,
                 clPc>>
\* The state of model building and of the coder's tables, which the IDN
\* pipeline never touches.
ransVars == <<model, ransModel, generator>>
queueVars == <<intQueue, queueLog>>
switchVars == <<blockEnc, blockDec>>
codingVars == <<ransVars, queueVars, switchVars>>
modelVars == <<binVars, clusterVars, codingVars>>

\* No context binning is going on.
BinIdle ==
    /\ nodes = <<>>
    /\ available = <<>>
    /\ mergeQueue = {}
    /\ num_contexts = 0
    /\ openQueue = {}
    /\ result = <<>>
    /\ binPc = "none"

\* No clustering is going on.
ClusterIdle ==
    /\ centroids = {}
    /\ values = {}
    /\ cost = <<>>
    /\ num_clusters = 0
    /\ best_centroids = <<>>
    /\ centroids_available = <<>>
    /\ value_clusters = <<>>
    /\ clusters = <<>>
    /\ rounds = {}
    /\ clPc = "none"

\* No rANS table, no context generator and no queue exists.
NoGenerator == [pc |-> "none"]
NoQueue == [pc |-> "none"]
RansIdle ==
    /\ model = [pc |-> "none"]
    /\ ransModel = [pc |-> "none"]
    /\ generator = NoGenerator
QueueIdle ==
    /\ intQueue = NoQueue
    /\ queueLog = <<>>
\* No block is being staged or read on its own.
SwitchIdle ==
    /\ blockEnc = [pc |-> "none"]
    /\ blockDec = [pc |-> "none"]
CodingIdle == RansIdle /\ QueueIdle /\ SwitchIdle

ModelIdle == BinIdle /\ ClusterIdle /\ CodingIdle

\* ------------------------------------------------------------------ errors
NoError == [kind |-> "None", a |-> 0, b |-> 0]
\* #[default] InvalidState of IdnCompressorError / IdnDecompressorError
DefaultError == [kind |-> "InvalidState", a |-> 0, b |-> 0]
IoError(idx) == [kind |-> "IoError", a |-> idx, b |-> 0]
SerializeError(pos) == [kind |-> "SerializeError", a |-> pos, b |-> 0]
sequence_too_long(len, max) == [kind |-> "SequenceTooLong", a |-> len, b |-> max]
block_checksum_mismatch(actual, expected) ==
    [kind |-> "BlockChecksumMismatch", a |-> actual, b |-> expected]
invalid_model_index(index, num) ==
    [kind |-> "InvalidModelIndex", a |-> index, b |-> num]
no_active_model(type) == [kind |-> "NoActiveModel", a |-> type, b |-> 0]

\* ErrorReceiver::set_error: the slot after storing `error`.
set_error(slot, error) == error

\* ErrorReceiver::status: the slot after the call (mem::take leaves the
\* default error value inside the Some).
status_left(slot) == IF slot = NoError THEN NoError ELSE DefaultError

\* ------------------------------------------------------------- sequences
\* A FastqSequence: `id` names its acids and quality scores, `len` is their
\* number, `ident` is the identifier as a string of characters.
Sequences3 ==
    { [id |-> 1, len |-> 1, ident |-> <<>>],
      [id |-> 2, len |-> 2, ident |-> <<"a">>],
      [id |-> 3, len |-> 4, ident |-> <<"NL">>] }

\* The values of max_block_total_len: with 1 no sequence is accepted, with 4
\* the sequence of four acids is not, with 8 every sequence is.
BlockLens == {1, 4, 8}

with_identifier_discarded(s) == [s EXCEPT !.ident = <<>>]
with_identifier(s, identifier) == [s EXCEPT !.ident = identifier]

SeqBytes(s) ==
    [i \in 1..Len(s.ident) |-> IF s.ident[i] = "NL" THEN 10 ELSE 97]
        \o <<100 + s.id, s.len>>

RECURSIVE HashBytes(_, _)
HashBytes(h, bytes) ==
    IF bytes = <<>> THEN h
    ELSE HashBytes((h * 31 + Head(bytes) + 1) % 1009, Tail(bytes))

\* crc32fast::Hasher fed with every sequence of the list, then finalized.
RECURSIVE HashSeqs(_, _)
HashSeqs(h, seqs) ==
    IF seqs = <<>> THEN h
    ELSE HashSeqs(HashBytes(h, SeqBytes(Head(seqs))), Tail(seqs))

Checksum(seqs) == HashSeqs(0, seqs)

\* IdnBlockCompressor::identifiers_as_lines: the identifiers joined by "\n".
RECURSIVE identifiers_as_lines(_)
identifiers_as_lines(seqs) ==
    IF seqs = <<>> THEN <<>>
    ELSE IF Len(seqs) = 1 THEN Head(seqs).ident
    ELSE Head(seqs).ident \o <<"NL">> \o identifiers_as_lines(Tail(seqs))

\* str::lines: split at every "\n"; a last line that is empty is not a line.
RECURSIVE LinesFrom(_, _)
LinesFrom(chars, cur) ==
    IF chars = <<>> THEN (IF cur = <<>> THEN <<>> ELSE <<cur>>)
    ELSE IF Head(chars) = "NL" THEN <<cur>> \o LinesFrom(Tail(chars), <<>>)
    ELSE LinesFrom(Tail(chars), Append(cur, Head(chars)))

\* The identifiers text taken as one line.
whole_text_as_line(chars) == IF chars = <<>> THEN <<>> ELSE <<chars>>

\* IdnBlockDecompressor::identifiers_from_lines
identifiers_from_lines(chars) == LinesFrom(chars, <<>>)

\* ------------------------------------------------------------ block writer
\* The model provider after initialization with the default models: index 0
\* is the acid model, index 1 the quality score model.
NumModels == 2
ModelTypeOf(index) == IF index = 0 THEN "Acids" ELSE "QualityScores"

IdentifiersSlice(lines) ==
    [tag |-> "Identifiers", lines |-> lines, model_index |-> 0, id |-> 0,
     seq_len |-> 0, am |-> 0, qm |-> 0]
SwitchModelSlice(index) ==
    [tag |-> "SwitchModel", lines |-> <<>>, model_index |-> index, id |-> 0,
     seq_len |-> 0, am |-> 0, qm |-> 0]
SequenceSlice(s, am, qm) ==
    [tag |-> "Sequence", lines |-> <<>>, model_index |-> 0, id |-> s.id,
     seq_len |-> s.len, am |-> am, qm |-> qm]

SliceBytes(sl) ==
    IF sl.tag = "Identifiers" THEN 6 + Len(sl.lines)
    ELSE IF sl.tag = "SwitchModel" THEN 2
    ELSE 9 + sl.seq_len

RECURSIVE PayloadBytes(_)
PayloadBytes(payload) ==
    IF payload = <<>> THEN 0
    ELSE SliceBytes(Head(payload)) + PayloadBytes(Tail(payload))

\* The slices of the sequences of a block: a switch-model slice whenever the
\* best model is not the active one, then the sequence slice.
RECURSIVE SequenceSlices(_, _, _)
SequenceSlices(seqs, curAcid, curQ) ==
    IF seqs = <<>> THEN <<>>
    ELSE (IF curAcid # 0 THEN <<SwitchModelSlice(0)>> ELSE <<>>)
         \o (IF curQ # 1 THEN <<SwitchModelSlice(1)>> ELSE <<>>)
         \o <<SequenceSlice(Head(seqs), 0, 1)>>
         \o SequenceSlices(Tail(seqs), 0, 1)

\* IdnBlockCompressor::prepare_to_write: the staged slices of a block.
prepare_to_write(seqs, include_identifiers) ==
    IF seqs = <<>> THEN <<>>
    ELSE (IF include_identifiers
          THEN <<IdentifiersSlice(identifiers_as_lines(seqs))>>
          ELSE <<>>)
         \o SequenceSlices(seqs, NumModels, NumModels)

\* BlockWriter::write_to: the block header written in front of the payload.
BlockHeader(seqs, payload) ==
    [length |-> PayloadBytes(payload),
     seq_checksum |-> Checksum(seqs),
     block_num |-> Len(payload)]

NoHeader == [length |-> 0, seq_checksum |-> 0, block_num |-> 0]

OutIdnHeader == [part |-> "idn_header", idx |-> 0, hdr |-> NoHeader, payload |-> <<>>]
OutHeader(idx, hdr) == [part |-> "header", idx |-> idx, hdr |-> hdr, payload |-> <<>>]
OutPayload(idx, payload) ==
    [part |-> "payload", idx |-> idx, hdr |-> NoHeader, payload |-> payload]

\* IdnBlockCompressor::write under the ordering lock and the writer mutex:
\* what reaches the output when the write ends with `outcome`.
WrittenBy(idx, seqs, include_identifiers, outcome) ==
    LET payload == prepare_to_write(seqs, include_identifiers)
        hdr == BlockHeader(seqs, payload)
    IN  IF outcome = "fail_header" THEN <<>>
        ELSE IF outcome = "fail_payload" THEN <<OutHeader(idx, hdr)>>
        ELSE <<OutHeader(idx, hdr), OutPayload(idx, payload)>>

WriteOutcomes == IF ioFails < MaxIoFail THEN {"ok", "fail_header", "fail_payload"}
                 ELSE {"ok"}

\* A lock that a block can take before the blocks in front of it.
LockEarly(block_index) == lockCur <= block_index

\* A lock that any block can take at any time.
LockOpen(block_index) == TRUE

\* IdnBlockLockGuard::new: the lock for `block_index` can be taken.
LockFree(block_index) == lockCur = block_index

\* ------------------------------------------------------------------- pool
Job(kind, idx, seqs) ==
    [kind |-> kind, idx |-> idx, pc |-> "start", res |-> NoError, seqs |-> seqs]
DispatchJob == Job("dispatch", 0, <<>>)

\* ThreadPool::inner_join has nothing left to wait for.
PoolDrained == childNum = 0 /\ queue = <<>> /\ running = {}

\* ThreadPool::make_child: the child pool runs jobs on pool threads.
ChildThreaded == threadNum >= 2

IdleDisp == [pc |-> "none", blocks |-> <<>>, current_block |-> 0,
             initialized |-> FALSE, last |-> FALSE, err |-> NoError]
IdleCaller == [pc |-> "idle", ctx |-> "none", seq |-> [id |-> 0, len |-> 0, ident |-> <<>>],
               err |-> NoError]

Result(call, err, val) == [call |-> call, err |-> err, val |-> val]
NoSeq == [id |-> 0, len |-> 0, ident |-> <<>>]


\* --------------------------------------------------------- the compressor
\* IdnCompressor::with_params; with thread_num > 0 the job running
\* write_all_blocks is submitted to the pool at once.
InitC ==
    /\ phase = "compress"
    /\ threadNum \in 0..MaxThreads
    /\ maxLen \in BlockLens
    /\ inclIds \in BOOLEAN
    /\ block = <<>>
    /\ blockLength = 0
    /\ nCalls = 0
    /\ submitted = <<>>
    /\ dq = [data |-> <<>>, finished |-> FALSE]
    /\ queue = IF threadNum > 0 THEN <<DispatchJob>> ELSE <<>>
    /\ running = {}
    /\ errorSlot = NoError
    /\ childNum = IF threadNum > 0 THEN 1 ELSE 0
    /\ lockCur = 0
    /\ disp = [IdleDisp EXCEPT !.pc = IF threadNum > 0 THEN "queued" ELSE "none"]
    /\ caller = IdleCaller
    /\ results = <<>>
    /\ output = <<>>
    /\ ioFails = 0
    /\ failLog = <<>>
    /\ stream = <<>>
    /\ seqsToGet = <<>>
    /\ eofReached = FALSE
    /\ returned = <<>>
    /\ appendLog = <<>>
    /\ ModelIdle

\* A max_seq_len that does not halve max_block_total_len.
whole_block_len == maxLen

\* IdnCompressor::max_seq_len
max_seq_len == maxLen \div 2

Stored(s) == IF inclIds THEN s ELSE with_identifier_discarded(s)

\* ThreadPool::get_status at the head of IdnCompressor::make_block: a stored
\* error is taken and the caller goes on to inner_join.
GetStatus(ctx, s) ==
    IF errorSlot # NoError
    THEN /\ errorSlot' = status_left(errorSlot)
         /\ caller' = [pc |-> "mb_join", ctx |-> ctx, seq |-> s, err |-> errorSlot]
    ELSE /\ caller' = [pc |-> "mb_add", ctx |-> ctx, seq |-> s, err |-> NoError]
         /\ UNCHANGED errorSlot

\* A block that is flushed only beyond twice max_block_total_len.
block_full_late(s) == blockLength + s.len > 2 * maxLen

\* IdnCompressor::add_sequence: the sequence does not fit the current block.
block_full(s) == blockLength + s.len > maxLen

\* IdnCompressor::add_sequence, up to the first access to shared state.
AddSequence(s) ==
    /\ phase = "compress"
    /\ caller.pc = "idle"
    /\ nCalls < MaxSeqs
    /\ nCalls' = nCalls + 1
    /\ IF s.len > max_seq_len
       THEN /\ results' = Append(results,
                   Result("add_sequence", sequence_too_long(s.len, max_seq_len), NoSeq))
            /\ UNCHANGED <<caller, errorSlot, block, blockLength, submitted>>
       ELSE IF block_full(s)
       THEN /\ GetStatus("add", s)
            /\ UNCHANGED <<results, block, blockLength, submitted>>
       ELSE /\ block' = Append(block, Stored(s))
            /\ blockLength' = blockLength + s.len
            /\ submitted' = Append(submitted, s)
            /\ results' = Append(results, Result("add_sequence", NoError, NoSeq))
            /\ UNCHANGED <<caller, errorSlot>>
    /\ UNCHANGED <<phase, threadNum, maxLen, inclIds, dq, queue, running, childNum,
                   lockCur, disp, output, ioFails, failLog>>
    /\ UNCHANGED decVars
    /\ UNCHANGED modelVars

\* A finish that calls make_block once, whatever the current block holds.
FinishOneBlock ==
    /\ phase = "compress"
    /\ caller.pc = "idle"
    /\ GetStatus("fin2", NoSeq)
    /\ UNCHANGED <<phase, threadNum, dq, queue, running, childNum, lockCur, disp,
                   results, failLog>>
    /\ UNCHANGED compVars
    /\ UNCHANGED decVars
    /\ UNCHANGED modelVars

\* IdnCompressor::finish, up to the first access to shared state.
Finish ==
    /\ phase = "compress"
    /\ caller.pc = "idle"
    /\ GetStatus(IF block # <<>> THEN "fin1" ELSE "fin2", NoSeq)
    /\ UNCHANGED <<phase, threadNum, dq, queue, running, childNum, lockCur, disp,
                   results, failLog>>
    /\ UNCHANGED compVars
    /\ UNCHANGED decVars
    /\ UNCHANGED modelVars

\* The second make_block of finish: its get_status.
MakeBlockStatus ==
    /\ phase = "compress"
    /\ caller.pc = "mb_status"
    /\ GetStatus(caller.ctx, caller.seq)
    /\ UNCHANGED <<phase, threadNum, dq, queue, running, childNum, lockCur, disp,
                   results, failLog>>
    /\ UNCHANGED compVars
    /\ UNCHANGED decVars
    /\ UNCHANGED modelVars

CallName(ctx) == IF ctx = "add" THEN "add_sequence" ELSE "finish"

\* What follows a make_block that returned Ok, in add_sequence and in finish.
AfterMakeBlock ==
    IF caller.ctx = "add"
    THEN /\ block' = <<Stored(caller.seq)>>
         /\ blockLength' = caller.seq.len
         /\ submitted' = Append(submitted, caller.seq)
         /\ results' = Append(results, Result("add_sequence", NoError, NoSeq))
         /\ caller' = IdleCaller
    ELSE /\ block' = <<>>
         /\ blockLength' = 0
         /\ UNCHANGED <<submitted, results>>
         /\ caller' = IF caller.ctx = "fin1"
                      THEN [caller EXCEPT !.pc = "mb_status", !.ctx = "fin2"]
                      ELSE [caller EXCEPT !.pc = "fin_setfin"]

\* make_block returned an error to add_sequence or finish.
MakeBlockFailed(e) ==
    /\ block' = <<>>
    /\ blockLength' = 0
    /\ UNCHANGED submitted
    /\ results' = Append(results, Result(CallName(caller.ctx), e, NoSeq))
    /\ caller' = IF caller.ctx = "add" THEN IdleCaller
                 ELSE [IdleCaller EXCEPT !.pc = "done"]

\* IdnCompressor::make_block after get_status, with a pool that runs jobs on
\* its threads: the block goes to the data queue.
MakeBlockAdd ==
    /\ phase = "compress"
    /\ caller.pc = "mb_add"
    /\ threadNum > 0
    /\ dq' = [dq EXCEPT !.data = Append(dq.data, block)]
    /\ AfterMakeBlock
    /\ UNCHANGED <<phase, threadNum, maxLen, inclIds, nCalls, queue, running,
                   errorSlot, childNum, lockCur, disp, output, ioFails, failLog>>
    /\ UNCHANGED decVars
    /\ UNCHANGED modelVars

\* IdnCompressor::make_block after get_status in foreground mode: the block
\* goes through the data queue to write_current_blocks and write_block, and
\* ThreadPool::execute runs the job in place.
MakeBlockForeground ==
    /\ phase = "compress"
    /\ caller.pc = "mb_add"
    /\ threadNum = 0
    /\ LET init == IF disp.initialized THEN <<>> ELSE <<OutIdnHeader>>
           idx == disp.current_block
       IN  IF errorSlot # NoError
           THEN /\ errorSlot' = status_left(errorSlot)
                /\ output' = output \o init
                /\ disp' = [disp EXCEPT !.initialized = TRUE]
                /\ MakeBlockFailed(errorSlot)
                /\ UNCHANGED <<lockCur, ioFails, failLog>>
           ELSE /\ LockFree(idx)
                /\ \E outcome \in WriteOutcomes :
                     /\ output' = output \o init \o WrittenBy(idx, block, inclIds, outcome)
                     /\ lockCur' = lockCur + 1
                     /\ IF outcome = "ok"
                        THEN /\ disp' = [disp EXCEPT !.initialized = TRUE,
                                                     !.current_block = idx + 1]
                             /\ AfterMakeBlock
                             /\ UNCHANGED <<errorSlot, ioFails, failLog>>
                        ELSE /\ disp' = [disp EXCEPT !.initialized = TRUE]
                             /\ ioFails' = ioFails + 1
                             /\ failLog' = Append(failLog, [idx |-> idx, err |-> IoError(idx)])
                             /\ errorSlot' = status_left(set_error(errorSlot, IoError(idx)))
                             /\ MakeBlockFailed(IoError(idx))
    /\ UNCHANGED <<phase, threadNum, maxLen, inclIds, nCalls, dq, queue, running,
                   childNum>>
    /\ UNCHANGED decVars
    /\ UNCHANGED modelVars

\* ThreadPool::get_status found an error: inner_join, then the error.
MakeBlockJoin ==
    /\ phase = "compress"
    /\ caller.pc = "mb_join"
    /\ PoolDrained
    /\ results' = Append(results, Result(CallName(caller.ctx), caller.err, NoSeq))
    /\ caller' = IF caller.ctx = "add" THEN IdleCaller
                 ELSE [IdleCaller EXCEPT !.pc = "done"]
    /\ UNCHANGED <<phase, threadNum, dq, queue, running, errorSlot, childNum,
                   lockCur, disp, failLog>>
    /\ UNCHANGED compVars
    /\ UNCHANGED decVars
    /\ UNCHANGED modelVars

\* IdnCompressor::finish: data_queue.set_finished().
FinishSetFinished ==
    /\ phase = "compress"
    /\ caller.pc = "fin_setfin"
    /\ dq' = [dq EXCEPT !.finished = TRUE]
    /\ caller' = [caller EXCEPT !.pc = "fin_join"]
    /\ UNCHANGED <<phase, threadNum, queue, running, errorSlot, childNum, lockCur,
                   disp, results, failLog>>
    /\ UNCHANGED compVars
    /\ UNCHANGED decVars
    /\ UNCHANGED modelVars

\* IdnCompressor::finish: thread_pool.join()?.
FinishJoin ==
    /\ phase = "compress"
    /\ caller.pc = "fin_join"
    /\ PoolDrained
    /\ results' = Append(results, Result("finish", errorSlot, NoSeq))
    /\ errorSlot' = status_left(errorSlot)
    /\ caller' = [IdleCaller EXCEPT !.pc = "done"]
    /\ UNCHANGED <<phase, threadNum, dq, queue, running, childNum, lockCur, disp,
                   failLog>>
    /\ UNCHANGED compVars
    /\ UNCHANGED decVars
    /\ UNCHANGED modelVars

\* The IdnCompressor goes out of scope: at the end of finish(), which takes
\* it by value, or without finish() having been called. Drop starts
\* thread_pool.join().
DropCompressor ==
    /\ phase = "compress"
    /\ caller.pc \in {"idle", "done"}
    /\ caller' = [IdleCaller EXCEPT !.pc = "drop_join",
                     !.ctx = IF caller.pc = "done" THEN "finished" ELSE "unfinished"]
    /\ UNCHANGED <<phase, threadNum, dq, queue, running, errorSlot, childNum,
                   lockCur, disp, results, failLog>>
    /\ UNCHANGED compVars
    /\ UNCHANGED decVars
    /\ UNCHANGED modelVars

\* Drop for IdnCompressor: join() has returned, and expect() panics on Err.
DropCompressorJoin ==
    /\ phase = "compress"
    /\ caller.pc = "drop_join"
    /\ PoolDrained
    /\ errorSlot' = status_left(errorSlot)
    /\ caller' = [caller EXCEPT !.pc = IF errorSlot # NoError THEN "panicked"
                                       ELSE "dropped"]
    /\ UNCHANGED <<phase, threadNum, dq, queue, running, childNum, lockCur, disp,
                   results, failLog>>
    /\ UNCHANGED compVars
    /\ UNCHANGED decVars
    /\ UNCHANGED modelVars


\* ---------------------------------------------------- the pool's threads
RunningDispatch == [DispatchJob EXCEPT !.pc = "run"]

\* threadpool::ThreadPool: an idle thread takes the job at the head of the
\* queue. A block job of the decompressor decodes its block at once.
Started(j) ==
    IF j.kind = "dispatch" THEN RunningDispatch
    ELSE [j EXCEPT !.pc = "locked"]

\* A pool that starts the job queued last instead of the one queued first.
PoolStartLast ==
    /\ phase = "compress"
    /\ queue # <<>>
    /\ Cardinality(running) < threadNum
    /\ running' = running \cup {Started(queue[Len(queue)])}
    /\ queue' = SubSeq(queue, 1, Len(queue) - 1)
    /\ disp' = IF queue[Len(queue)].kind = "dispatch"
               THEN [disp EXCEPT !.pc = "retrieve"] ELSE disp
    /\ UNCHANGED <<phase, threadNum, dq, errorSlot, childNum, lockCur, caller,
                   results, failLog>>
    /\ UNCHANGED compVars
    /\ UNCHANGED decVars
    /\ UNCHANGED modelVars

\* A worker thread of the compressor's pool starts the next queued job.
PoolStartC ==
    /\ phase = "compress"
    /\ queue # <<>>
    /\ Cardinality(running) < threadNum
    /\ running' = running \cup {Started(Head(queue))}
    /\ queue' = Tail(queue)
    /\ disp' = IF Head(queue).kind = "dispatch"
               THEN [disp EXCEPT !.pc = "retrieve"] ELSE disp
    /\ UNCHANGED <<phase, threadNum, dq, errorSlot, childNum, lockCur, caller,
                   results, failLog>>
    /\ UNCHANGED compVars
    /\ UNCHANGED decVars
    /\ UNCHANGED modelVars

\* IdnCompressorInner::write_all_blocks: data_queue.retrieve_all().
DispRetrieve ==
    /\ phase = "compress"
    /\ disp.pc = "retrieve"
    /\ dq.finished \/ dq.data # <<>>
    /\ dq' = [dq EXCEPT !.data = <<>>]
    /\ disp' = IF dq.data = <<>>
               THEN [disp EXCEPT !.pc = "ret", !.err = NoError]
               ELSE [disp EXCEPT !.pc = "write", !.blocks = dq.data]
    /\ UNCHANGED <<phase, threadNum, queue, running, errorSlot, childNum, lockCur,
                   caller, results, failLog>>
    /\ UNCHANGED compVars
    /\ UNCHANGED decVars
    /\ UNCHANGED modelVars

\* The dispatcher after a write_block that returned Ok.
DispNextBlock(d) ==
    [d EXCEPT !.current_block = d.current_block + 1,
              !.blocks = Tail(d.blocks),
              !.pc = IF Tail(d.blocks) = <<>> THEN "retrieve" ELSE "write"]

\* IdnCompressorInner::write_block on the dispatcher job: initialize on the
\* first block, then ThreadPool::execute on the child pool, which hands the
\* job to the pool or, with one thread, runs it in place.
DispWriteBlock ==
    /\ phase = "compress"
    /\ disp.pc = "write"
    /\ LET init == IF disp.initialized THEN <<>> ELSE <<OutIdnHeader>>
           idx == disp.current_block
           blk == Head(disp.blocks)
           d == [disp EXCEPT !.initialized = TRUE]
       IN  IF errorSlot # NoError
           THEN /\ errorSlot' = status_left(errorSlot)
                /\ output' = output \o init
                /\ disp' = [d EXCEPT !.pc = "ret", !.err = errorSlot]
                /\ UNCHANGED <<queue, lockCur, ioFails, failLog>>
           ELSE IF ChildThreaded
           THEN /\ queue' = Append(queue, Job("block", idx, blk))
                /\ output' = output \o init
                /\ disp' = DispNextBlock(d)
                /\ UNCHANGED <<errorSlot, lockCur, ioFails, failLog>>
           ELSE /\ LockFree(idx)
                /\ \E outcome \in WriteOutcomes :
                     /\ output' = output \o init \o WrittenBy(idx, blk, inclIds, outcome)
                     /\ lockCur' = lockCur + 1
                     /\ IF outcome = "ok"
                        THEN /\ disp' = DispNextBlock(d)
                             /\ UNCHANGED <<errorSlot, ioFails, failLog>>
                        ELSE /\ disp' = [d EXCEPT !.pc = "exec_status"]
                             /\ ioFails' = ioFails + 1
                             /\ failLog' = Append(failLog, [idx |-> idx, err |-> IoError(idx)])
                             /\ errorSlot' = set_error(errorSlot, IoError(idx))
                /\ UNCHANGED queue
    /\ UNCHANGED <<phase, threadNum, maxLen, inclIds, block, blockLength, nCalls,
                   submitted, dq, running, childNum, caller, results>>
    /\ UNCHANGED decVars
    /\ UNCHANGED modelVars

\* ThreadPool::execute without pool threads, after the job: status()?.
DispExecStatus ==
    /\ phase = "compress"
    /\ disp.pc = "exec_status"
    /\ errorSlot' = status_left(errorSlot)
    /\ disp' = IF errorSlot # NoError
               THEN [disp EXCEPT !.pc = "ret", !.err = errorSlot]
               ELSE DispNextBlock(disp)
    /\ UNCHANGED <<phase, threadNum, dq, queue, running, childNum, lockCur, caller,
                   results, failLog>>
    /\ UNCHANGED compVars
    /\ UNCHANGED decVars
    /\ UNCHANGED modelVars

\* The dispatcher job returns: its child pool handle is dropped and the pool
\* thread hands the job's result to ErrorReceiver::handle_result.
DispReturn ==
    /\ disp.pc = "ret"
    /\ childNum' = childNum - 1
    /\ running' = running \ {RunningDispatch}
    /\ disp' = [disp EXCEPT !.pc = "done"]
    /\ IF disp.err # NoError
       THEN /\ errorSlot' = set_error(errorSlot, disp.err)
            /\ failLog' = Append(failLog, [idx |-> disp.current_block, err |-> disp.err])
       ELSE UNCHANGED <<errorSlot, failLog>>
    /\ UNCHANGED <<phase, threadNum, dq, queue, lockCur, caller, results>>
    /\ UNCHANGED compVars
    /\ UNCHANGED decVars
    /\ UNCHANGED modelVars

\* IdnBlockCompressor::process on a pool thread: the staged block is written
\* under the ordering lock, and the guard is dropped.
BlockWrite(j) ==
    /\ phase = "compress"
    /\ j.kind = "block"
    /\ j.pc = "locked"
    /\ LockFree(j.idx)
    /\ \E outcome \in WriteOutcomes :
         /\ output' = output \o WrittenBy(j.idx, j.seqs, inclIds, outcome)
         /\ IF outcome = "ok"
            THEN /\ running' = running \ {j}
                 /\ UNCHANGED ioFails
            ELSE /\ running' = (running \ {j})
                        \cup {[j EXCEPT !.pc = "ret", !.res = IoError(j.idx)]}
                 /\ ioFails' = ioFails + 1
    /\ lockCur' = lockCur + 1
    /\ UNCHANGED <<phase, threadNum, maxLen, inclIds, block, blockLength, nCalls,
                   submitted, dq, queue, errorSlot, childNum, disp, caller, results,
                   failLog>>
    /\ UNCHANGED decVars
    /\ UNCHANGED modelVars

\* A block job returned an error: ErrorReceiver::handle_result stores it.
BlockFailed(j) ==
    /\ j.kind = "block"
    /\ j.pc = "ret"
    /\ errorSlot' = set_error(errorSlot, j.res)
    /\ failLog' = Append(failLog, [idx |-> j.idx, err |-> j.res])
    /\ running' = running \ {j}
    /\ UNCHANGED <<phase, threadNum, dq, queue, childNum, lockCur, disp, caller,
                   results>>
    /\ UNCHANGED compVars
    /\ UNCHANGED decVars
    /\ UNCHANGED modelVars

\* ------------------------------------------------------- the block reader
NoModel == NumModels

\* SequenceDecompressor::decompress: the sequence a sequence slice decodes
\* to under the active models (only the models it was encoded with give
\* back its acids and quality scores).
decompress(sl, acid_model, q_score_model) ==
    [id |-> IF acid_model = sl.am /\ q_score_model = sl.qm THEN sl.id ELSE 0,
     len |-> sl.seq_len,
     ident |-> <<>>]

\* IdnBlockDecompressor::next_sequence_internal over the whole payload:
\* `ids` is the identifier stack (next first), `acc` the sequences so far.
RECURSIVE ReadSlices(_, _, _, _, _)
ReadSlices(payload, ids, curAcid, curQ, acc) ==
    IF payload = <<>> THEN [err |-> NoError, seqs |-> acc]
    ELSE LET sl == Head(payload)
             rest == Tail(payload)
         IN  IF sl.tag = "Identifiers"
             THEN ReadSlices(rest, identifiers_from_lines(sl.lines), curAcid, curQ, acc)
             ELSE IF sl.tag = "SwitchModel"
             THEN IF sl.model_index >= NumModels
                  THEN [err |-> invalid_model_index(sl.model_index, NumModels),
                        seqs |-> acc]
                  ELSE IF ModelTypeOf(sl.model_index) = "Acids"
                  THEN ReadSlices(rest, ids, sl.model_index, curQ, acc)
                  ELSE ReadSlices(rest, ids, curAcid, sl.model_index, acc)
             ELSE IF curAcid = NoModel
             THEN [err |-> no_active_model(0), seqs |-> acc]
             ELSE IF curQ = NoModel
             THEN [err |-> no_active_model(1), seqs |-> acc]
             ELSE LET s == decompress(sl, curAcid, curQ)
                  IN  IF ids # <<>>
                      THEN ReadSlices(rest, Tail(ids), curAcid, curQ,
                                      Append(acc, with_identifier(s, Head(ids))))
                      ELSE ReadSlices(rest, ids, curAcid, curQ, Append(acc, s))

\* IdnBlockDecompressor::check_checksum
check_checksum(seqs, seq_checksum) ==
    IF Checksum(seqs) # seq_checksum
    THEN block_checksum_mismatch(Checksum(seqs), seq_checksum)
    ELSE NoError

\* IdnBlockDecompressor::process up to the ordering lock: the sequences of
\* the block, or the error that ends the job.
Decoded(frame) ==
    LET r == ReadSlices(frame.payload, <<>>, NoModel, NoModel, <<>>)
    IN  IF r.err # NoError THEN r
        ELSE [err |-> check_checksum(r.seqs, frame.hdr.seq_checksum), seqs |-> r.seqs]

\* A queue that every append marks as finished.
add_all_finishing(q, data) == [q EXCEPT !.data = q.data \o data, !.finished = TRUE]

\* DataQueue::add_all
add_all(q, data) ==
    IF data = <<>> THEN [q EXCEPT !.finished = TRUE]
    ELSE [q EXCEPT !.data = q.data \o data]

\* ------------------------------------------------------- the decompressor
Frame(seqs) ==
    LET payload == prepare_to_write(seqs, TRUE)
    IN  [hdr |-> BlockHeader(seqs, payload), payload |-> payload]

S1 == [id |-> 1, len |-> 1, ident |-> <<>>]
S2 == [id |-> 2, len |-> 2, ident |-> <<"a">>]

\* A frame whose stored checksum is not the checksum of its sequences.
BadChecksum(frame) ==
    [frame EXCEPT !.hdr.seq_checksum = (frame.hdr.seq_checksum + 1) % 1009]

\* A frame with a payload and no sequence slice in it.
NoSequenceFrame ==
    [hdr |-> [length |-> 2, seq_checksum |-> 0, block_num |-> 1],
     payload |-> <<SwitchModelSlice(0)>>]

\* A frame whose sequence slice comes before any switch-model slice.
NoModelFrame ==
    [hdr |-> [length |-> 10, seq_checksum |-> Checksum(<<S1>>), block_num |-> 1],
     payload |-> <<SequenceSlice(S1, 0, 1)>>]

ZeroBlock == Frame(<<>>)

Frames == {Frame(<<S1>>), Frame(<<S2, S1>>), BadChecksum(Frame(<<S1>>)),
           NoSequenceFrame, NoModelFrame}

\* The input streams: up to MaxFrames frames, then the zero-length block or
\* the end of the input.
Streams ==
    UNION { { body \o tail : body \in [1..n -> Frames] } :
            n \in 0..MaxFrames, tail \in {<<>>, <<ZeroBlock>>} }

\* IdnDecompressor::with_params; with thread_num > 0 the job running
\* read_all is submitted to the pool at once.
DecompressorStart(threads, input) ==
    /\ phase = "decompress"
    /\ threadNum = threads
    /\ stream = input
    /\ dq = [data |-> <<>>, finished |-> FALSE]
    /\ queue = IF threads > 0 THEN <<DispatchJob>> ELSE <<>>
    /\ running = {}
    /\ errorSlot = NoError
    /\ childNum = IF threads > 0 THEN 1 ELSE 0
    /\ lockCur = 0
    /\ disp = [IdleDisp EXCEPT !.pc = IF threads > 0 THEN "queued" ELSE "none"]
    /\ caller = IdleCaller
    /\ results = <<>>
    /\ failLog = <<>>
    /\ seqsToGet = <<>>
    /\ eofReached = FALSE
    /\ returned = <<>>
    /\ appendLog = <<>>

InitD ==
    /\ \E threads \in 0..MaxThreads, input \in Streams :
          DecompressorStart(threads, input)
    /\ maxLen = 4
    /\ inclIds = TRUE
    /\ block = <<>>
    /\ blockLength = 0
    /\ nCalls = 0
    /\ submitted = <<>>
    /\ output = <<>>
    /\ ioFails = 0
    /\ ModelIdle

\* A worker thread of the decompressor's pool starts the next queued job;
\* a block job decodes its block (IdnBlockDecompressor::process up to the
\* ordering lock).
PoolStartD ==
    /\ phase = "decompress"
    /\ queue # <<>>
    /\ Cardinality(running) < threadNum
    /\ LET j == Head(queue)
           r == Decoded(stream[j.idx + 1])
       IN  /\ running' = running \cup
                { IF j.kind = "dispatch" THEN RunningDispatch
                  ELSE IF r.err # NoError
                  THEN [j EXCEPT !.pc = "ret", !.res = r.err]
                  ELSE [j EXCEPT !.pc = "locked", !.seqs = r.seqs] }
           /\ disp' = IF j.kind = "dispatch"
                      THEN [disp EXCEPT !.pc = "read"] ELSE disp
    /\ queue' = Tail(queue)
    /\ UNCHANGED <<phase, threadNum, dq, errorSlot, childNum, lockCur, caller,
                   results, failLog>>
    /\ UNCHANGED compVars
    /\ UNCHANGED decVars
    /\ UNCHANGED modelVars

Logged(idx, seqs) == [i \in 1..Len(seqs) |-> [idx |-> idx, seq |-> seqs[i]]]

\* IdnBlockDecompressor::process on a pool thread: the ordering lock, then
\* data_queue.add_all, then the guard is dropped.
BlockPush(j) ==
    /\ phase = "decompress"
    /\ j.kind = "block"
    /\ j.pc = "locked"
    /\ LockFree(j.idx)
    /\ dq' = add_all(dq, j.seqs)
    /\ appendLog' = appendLog \o Logged(j.idx, j.seqs)
    /\ lockCur' = lockCur + 1
    /\ running' = running \ {j}
    /\ UNCHANGED <<phase, threadNum, queue, errorSlot, childNum, disp, caller,
                   results, failLog, stream, seqsToGet, eofReached, returned>>
    /\ UNCHANGED compVars
    /\ UNCHANGED modelVars

\* The reader after a read_next_block that returned Ok.
ReadNextDone(d, data_len) ==
    [d EXCEPT !.initialized = TRUE,
              !.current_block = d.current_block + 1,
              !.last = (data_len = 0)]

\* IdnDecompressorInner::read_all on the dispatcher job, one turn of its
\* loop: read_next_block, and set_finished when that failed.
DispRead ==
    /\ phase = "decompress"
    /\ disp.pc = "read"
    /\ LET idx == disp.current_block
       IN  IF disp.last
           THEN /\ disp' = [disp EXCEPT !.pc = "ret", !.err = NoError]
                /\ UNCHANGED <<dq, queue, errorSlot, lockCur, failLog, appendLog>>
           ELSE IF idx + 1 > Len(stream)
           THEN /\ disp' = [disp EXCEPT !.initialized = TRUE, !.pc = "ret",
                                        !.err = SerializeError(idx)]
                /\ dq' = [dq EXCEPT !.finished = TRUE]
                /\ UNCHANGED <<queue, errorSlot, lockCur, failLog, appendLog>>
           ELSE IF errorSlot # NoError
           THEN /\ errorSlot' = status_left(errorSlot)
                /\ disp' = [disp EXCEPT !.initialized = TRUE, !.pc = "ret",
                                        !.err = errorSlot]
                /\ dq' = [dq EXCEPT !.finished = TRUE]
                /\ UNCHANGED <<queue, lockCur, failLog, appendLog>>
           ELSE IF ChildThreaded
           THEN /\ queue' = Append(queue, Job("block", idx, <<>>))
                /\ disp' = ReadNextDone(disp, stream[idx + 1].hdr.length)
                /\ UNCHANGED <<dq, errorSlot, lockCur, failLog, appendLog>>
           ELSE LET r == Decoded(stream[idx + 1])
                IN  IF r.err # NoError
                    THEN /\ errorSlot' = set_error(errorSlot, r.err)
                         /\ failLog' = Append(failLog, [idx |-> idx, err |-> r.err])
                         /\ disp' = [disp EXCEPT !.initialized = TRUE,
                                                 !.pc = "exec_status"]
                         /\ UNCHANGED <<dq, queue, lockCur, appendLog>>
                    ELSE /\ LockFree(idx)
                         /\ dq' = add_all(dq, r.seqs)
                         /\ appendLog' = appendLog \o Logged(idx, r.seqs)
                         /\ lockCur' = lockCur + 1
                         /\ disp' = ReadNextDone(disp, stream[idx + 1].hdr.length)
                         /\ UNCHANGED <<queue, errorSlot, failLog>>
    /\ UNCHANGED <<phase, threadNum, running, childNum, caller, results, stream,
                   seqsToGet, eofReached, returned>>
    /\ UNCHANGED compVars
    /\ UNCHANGED modelVars

\* ThreadPool::execute without pool threads, after a failed job: status()?,
\* and read_all's set_finished for the error it returns.
DispExecStatusD ==
    /\ phase = "decompress"
    /\ disp.pc = "exec_status"
    /\ errorSlot' = status_left(errorSlot)
    /\ IF errorSlot # NoError
       THEN /\ disp' = [disp EXCEPT !.pc = "ret", !.err = errorSlot]
            /\ dq' = [dq EXCEPT !.finished = TRUE]
       ELSE /\ disp' = [ReadNextDone(disp, stream[disp.current_block + 1].hdr.length)
                           EXCEPT !.pc = "read"]
            /\ UNCHANGED dq
    /\ UNCHANGED <<phase, threadNum, queue, running, childNum, lockCur, caller,
                   results, failLog>>
    /\ UNCHANGED compVars
    /\ UNCHANGED decVars
    /\ UNCHANGED modelVars

\* IdnDecompressorInner::read_next_block called by next_sequence in
\* foreground mode; ThreadPool::execute runs the block job in place.
ForegroundRead ==
    LET idx == disp.current_block
    IN  IF disp.last
        THEN /\ caller' = [caller EXCEPT !.pc = "retrieve"]
             /\ UNCHANGED <<disp, dq, errorSlot, lockCur, failLog, appendLog, eofReached>>
        ELSE IF idx + 1 > Len(stream)
        THEN /\ caller' = [caller EXCEPT !.pc = "ns_join", !.err = SerializeError(idx)]
             /\ eofReached' = TRUE
             /\ disp' = [disp EXCEPT !.initialized = TRUE]
             /\ UNCHANGED <<dq, errorSlot, lockCur, failLog, appendLog>>
        ELSE IF errorSlot # NoError
        THEN /\ caller' = [caller EXCEPT !.pc = "ns_join", !.err = errorSlot]
             /\ errorSlot' = status_left(errorSlot)
             /\ eofReached' = TRUE
             /\ disp' = [disp EXCEPT !.initialized = TRUE]
             /\ UNCHANGED <<dq, lockCur, failLog, appendLog>>
        ELSE LET r == Decoded(stream[idx + 1])
             IN  IF r.err # NoError
                 THEN /\ failLog' = Append(failLog, [idx |-> idx, err |-> r.err])
                      /\ errorSlot' = status_left(set_error(errorSlot, r.err))
                      /\ caller' = [caller EXCEPT !.pc = "ns_join", !.err = r.err]
                      /\ eofReached' = TRUE
                      /\ disp' = [disp EXCEPT !.initialized = TRUE]
                      /\ UNCHANGED <<dq, lockCur, appendLog>>
                 ELSE /\ LockFree(idx)
                      /\ dq' = add_all(dq, r.seqs)
                      /\ appendLog' = appendLog \o Logged(idx, r.seqs)
                      /\ lockCur' = lockCur + 1
                      /\ disp' = ReadNextDone(disp, stream[idx + 1].hdr.length)
                      /\ caller' = [caller EXCEPT !.pc = "retrieve"]
                      /\ UNCHANGED <<errorSlot, failLog, eofReached>>

\* IdnDecompressor::next_sequence, up to data_queue.retrieve_all.
NextSequence ==
    /\ phase = "decompress"
    /\ caller.pc = "idle"
    /\ eofReached =>
          (results = <<>> \/ results[Len(results)].call # "next_sequence_after_eof")
    /\ IF eofReached
       THEN /\ results' = Append(results, Result("next_sequence_after_eof", NoError, NoSeq))
            /\ UNCHANGED <<caller, disp, dq, errorSlot, lockCur, failLog, appendLog,
                           eofReached, seqsToGet, returned>>
       ELSE IF seqsToGet # <<>>
       THEN /\ results' = Append(results, Result("next_sequence", NoError, Head(seqsToGet)))
            /\ returned' = Append(returned, Head(seqsToGet))
            /\ seqsToGet' = Tail(seqsToGet)
            /\ UNCHANGED <<caller, disp, dq, errorSlot, lockCur, failLog, appendLog,
                           eofReached>>
       ELSE IF threadNum = 0
       THEN /\ ForegroundRead
            /\ UNCHANGED <<results, seqsToGet, returned>>
       ELSE /\ caller' = [caller EXCEPT !.pc = "retrieve"]
            /\ UNCHANGED <<results, disp, dq, errorSlot, lockCur, failLog, appendLog,
                           eofReached, seqsToGet, returned>>
    /\ UNCHANGED <<phase, threadNum, queue, running, childNum, stream>>
    /\ UNCHANGED compVars
    /\ UNCHANGED modelVars

\* IdnDecompressor::next_sequence_internal: data_queue.retrieve_all(), and
\* the first of the sequences it gave.
Retrieve ==
    /\ phase = "decompress"
    /\ caller.pc = "retrieve"
    /\ dq.finished \/ dq.data # <<>>
    /\ dq' = [dq EXCEPT !.data = <<>>]
    /\ IF dq.data = <<>>
       THEN /\ eofReached' = TRUE
            /\ caller' = [caller EXCEPT !.pc = "ns_join", !.err = NoError]
            /\ UNCHANGED <<results, seqsToGet, returned>>
       ELSE /\ results' = Append(results, Result("next_sequence", NoError, Head(dq.data)))
            /\ returned' = Append(returned, Head(dq.data))
            /\ seqsToGet' = Tail(dq.data)
            /\ caller' = IdleCaller
            /\ UNCHANGED eofReached
    /\ UNCHANGED <<phase, threadNum, queue, running, errorSlot, childNum, lockCur,
                   disp, failLog, stream, appendLog>>
    /\ UNCHANGED compVars
    /\ UNCHANGED modelVars

\* IdnDecompressor::next_sequence at the end of the stream or on an error:
\* thread_pool.join()?, then the result of next_sequence_internal.
NextSequenceJoin ==
    /\ phase = "decompress"
    /\ caller.pc = "ns_join"
    /\ PoolDrained
    /\ results' = Append(results,
          Result("next_sequence",
                 IF errorSlot # NoError THEN errorSlot ELSE caller.err, NoSeq))
    /\ errorSlot' = status_left(errorSlot)
    /\ caller' = IdleCaller
    /\ UNCHANGED <<phase, threadNum, dq, queue, running, childNum, lockCur, disp,
                   failLog>>
    /\ UNCHANGED compVars
    /\ UNCHANGED decVars
    /\ UNCHANGED modelVars

\* A Drop for IdnDecompressor that never panics.
DropDecompressorQuietly ==
    /\ phase = "decompress"
    /\ caller.pc = "idle"
    /\ caller' = [IdleCaller EXCEPT !.pc = "dropped", !.ctx = "drop"]
    /\ UNCHANGED <<phase, threadNum, dq, queue, running, errorSlot, childNum,
                   lockCur, disp, results, failLog>>
    /\ UNCHANGED compVars
    /\ UNCHANGED decVars
    /\ UNCHANGED modelVars

\* Drop for IdnDecompressor: a panic unless eof_reached is set.
DropDecompressor ==
    /\ phase = "decompress"
    /\ caller.pc = "idle"
    /\ caller' = [IdleCaller EXCEPT !.pc = IF eofReached THEN "dropped" ELSE "panicked",
                                    !.ctx = "drop"]
    /\ UNCHANGED <<phase, threadNum, dq, queue, running, errorSlot, childNum,
                   lockCur, disp, results, failLog>>
    /\ UNCHANGED compVars
    /\ UNCHANGED decVars
    /\ UNCHANGED modelVars

NextD ==
    \/ NextSequence
    \/ DropDecompressor
    \/ Retrieve
    \/ NextSequenceJoin
    \/ PoolStartD
    \/ DispRead
    \/ DispExecStatusD
    \/ DispReturn
    \/ \E j \in running : BlockPush(j)
    \/ \E j \in running : BlockFailed(j)

SpecD == InitD /\ [][NextD]_vars

NextC ==
    \/ \E s \in Sequences3 : AddSequence(s)
    \/ Finish
    \/ DropCompressor
    \/ DropCompressorJoin
    \/ MakeBlockStatus
    \/ MakeBlockAdd
    \/ MakeBlockForeground
    \/ MakeBlockJoin
    \/ FinishSetFinished
    \/ FinishJoin
    \/ PoolStartC
    \/ DispRetrieve
    \/ DispWriteBlock
    \/ DispExecStatus
    \/ DispReturn
    \/ \E j \in running : BlockWrite(j)
    \/ \E j \in running : BlockFailed(j)

SpecC == InitC /\ [][NextC]_vars


\* ------------------------------------------------------------- round trip
\* The frames of a finished output: the IDN header and metadata, then a
\* block header and a payload for every block.
FramesOf(out) ==
    [k \in 1..((Len(out) - 1) \div 2) |->
        [hdr |-> out[2 * k].hdr, payload |-> out[2 * k + 1].payload]]

\* finish() returned Ok and the compressor is gone: a decompressor is made
\* over the bytes it wrote.
StartDecompress ==
    /\ phase = "compress"
    /\ caller.pc = "done"
    /\ results[Len(results)] = Result("finish", NoError, NoSeq)
    /\ phase' = "decompress"
    /\ stream' = FramesOf(output)
    /\ \E threads \in 0..MaxThreads :
         /\ threadNum' = threads
         /\ queue' = IF threads > 0 THEN <<DispatchJob>> ELSE <<>>
         /\ childNum' = IF threads > 0 THEN 1 ELSE 0
         /\ disp' = [IdleDisp EXCEPT !.pc = IF threads > 0 THEN "queued" ELSE "none"]
    /\ dq' = [data |-> <<>>, finished |-> FALSE]
    /\ running' = {}
    /\ errorSlot' = NoError
    /\ lockCur' = 0
    /\ caller' = IdleCaller
    /\ results' = <<>>
    /\ failLog' = <<>>
    /\ output' = <<>>
    /\ nCalls' = 0
    /\ UNCHANGED <<maxLen, inclIds, block, blockLength, submitted, ioFails,
                   seqsToGet, eofReached, returned, appendLog>>
    /\ UNCHANGED modelVars

NextRT == NextC \/ StartDecompress \/ NextD

SpecRT == InitC /\ [][NextRT]_vars

\* -------------------------------------------------------- context binning
\* Largest number of contexts handed to bin_contexts_nodes.
MaxLeaves == 4

\* 1000 * k * log2(k) for k = 1..16, rounded.
XLog2X == <<0, 2000, 4755, 8000, 11610, 15510, 19651, 24000, 28529, 33219,
            38054, 43020, 48106, 53303, 58603, 64000>>

\* A Context is held as its vector of symbol counts: context_prob is the
\* share of its counts in all counts and symbol_prob[i] the share of count i
\* in its own counts.
LeafContexts == { <<2, 0>>, <<0, 2>>, <<1, 1>> }

\* Context::calc_entropy weighted by context_prob as Context::merge_cost
\* weights it, in units of 1/1000 bit per count: zero probabilities are
\* filtered out of the sum.
prob_entropy(c) ==
    LET x(k) == IF k = 0 THEN 0 ELSE XLog2X[k]
    IN  x(c[1] + c[2]) - (x(c[1]) + x(c[2]))

\* Context::merge_with: the probabilities add up and the symbol probabilities
\* are averaged with the context probabilities as weights.
merge_with(left, right) == <<left[1] + right[1], left[2] + right[2]>>

\* Context::merge_cost
merge_cost(merged, left, right) ==
    prob_entropy(merged) - (prob_entropy(left) + prob_entropy(right))

\* ContextNode::new_leaf
new_leaf(spec, context) ==
    [leaf |-> TRUE, specs |-> <<spec>>, context |-> context, merge_cost |-> 0,
     left_child |-> 0, right_child |-> 0]

\* ContextNode::new_from_merge
new_from_merge(left, right, left_index, right_index) ==
    LET context == merge_with(left, right)
    IN  [leaf |-> FALSE, specs |-> <<>>, context |-> context,
         merge_cost |-> merge_cost(context, left, right),
         left_child |-> left_index, right_child |-> right_index]

\* ContextNode::merge_cost: ZERO for a leaf.
node_merge_cost(node) == IF node.leaf THEN 0 ELSE node.merge_cost

\* vec[index] of a Rust vector, whose indices start at 0.
At(vec, index) == vec[index + 1]

\* Ord for ContextMergeCost
cost_cmp(a, b) == IF a < b THEN "Less" ELSE IF a > b THEN "Greater" ELSE "Equal"

\* QueuedNode::from_merge
from_merge(ns, left_index, right_index) ==
    [merge_cost |-> new_from_merge(At(ns, left_index).context,
                                   At(ns, right_index).context,
                                   left_index, right_index).merge_cost,
     left_index |-> left_index, right_index |-> right_index]

\* The merge costs of two queued pairs compared the plain way round.
queued_cmp_forward(self, other) == cost_cmp(self.merge_cost, other.merge_cost)

\* Ord for QueuedNode: the merge costs compared the other way round.
queued_cmp(self, other) == cost_cmp(other.merge_cost, self.merge_cost)

\* Ord for IndexedContextNode: the merge costs compared the other way round.
indexed_cmp(ns, self, other) ==
    cost_cmp(node_merge_cost(At(ns, other)), node_merge_cost(At(ns, self)))

\* The specs of a node alone, with nothing of what lies under it.
own_specs(ns, index) == At(ns, index).specs

\* ContextTree::traverse_and_combine: the specs of the leaves under a node,
\* left subtree first.
RECURSIVE traverse_and_combine(_, _)
traverse_and_combine(ns, index) ==
    LET node == At(ns, index)
    IN  IF node.leaf THEN node.specs
        ELSE traverse_and_combine(ns, node.left_child)
               \o traverse_and_combine(ns, node.right_child)

\* specs.sort() of ComplexContext::new
RECURSIVE sort(_)
sort(specs) ==
    IF specs = <<>> THEN <<>>
    ELSE LET m == CHOOSE k \in 1..Len(specs) :
                      \A l \in 1..Len(specs) : specs[k] <= specs[l]
         IN  <<specs[m]>> \o sort(SubSeq(specs, 1, m - 1) \o SubSeq(specs, m + 1, Len(specs)))

\* specs.iter().all_unique() of ComplexContext::new
all_unique(specs) ==
    \A k, l \in 1..Len(specs) : specs[k] = specs[l] => k = l

\* ContextTree::combine_contexts
combine_contexts(ns, index) ==
    [specs |-> sort(traverse_and_combine(ns, index)),
     context |-> At(ns, index).context]

\* The state of the IDN pipeline.
idnVars == <<phase, threadNum, dq, queue, running, errorSlot, childNum, lockCur,
             disp, caller, results, failLog, compVars, decVars>>

\* No compressor and no decompressor is alive: `tool` names what runs.
IdnIdle(tool) ==
    /\ phase = tool
    /\ threadNum = 0
    /\ dq = [data |-> <<>>, finished |-> FALSE]
    /\ queue = <<>>
    /\ running = {}
    /\ errorSlot = NoError
    /\ childNum = 0
    /\ lockCur = 0
    /\ disp = IdleDisp
    /\ caller = IdleCaller
    /\ results = <<>>
    /\ failLog = <<>>
    /\ maxLen = 4
    /\ inclIds = TRUE
    /\ block = <<>>
    /\ blockLength = 0
    /\ nCalls = 0
    /\ submitted = <<>>
    /\ output = <<>>
    /\ ioFails = 0
    /\ stream = <<>>
    /\ seqsToGet = <<>>
    /\ eofReached = FALSE
    /\ returned = <<>>
    /\ appendLog = <<>>

\* bin_contexts_nodes up to its loop: the leaves carry the specs 1..n, every
\* pair of leaves is in the queue and every leaf is available.
InitB ==
    /\ IdnIdle("binning")
    /\ ClusterIdle
    /\ CodingIdle
    /\ \E n \in 1..MaxLeaves :
         \E contexts \in [1..n -> LeafContexts] :
           /\ nodes = [i \in 1..n |-> new_leaf(i, contexts[i])]
           /\ available = IF n = 1 THEN <<>> ELSE [i \in 1..n |-> TRUE]
           /\ mergeQueue = { from_merge(nodes, p[1], p[2]) :
                                p \in { t \in (0..(n - 1)) \X (0..(n - 1)) :
                                          t[1] < t[2] } }
           /\ binPc = IF n = 1 THEN "tree" ELSE "merge"
    /\ num_contexts = 0
    /\ openQueue = {}
    /\ result = <<>>

\* Both children of a queued pair are still available.
BothAvailable(q) == At(available, q.left_index) /\ At(available, q.right_index)

\* The pairs the pop loop of bin_contexts_nodes can break with: the pairs of
\* available nodes that no such pair is ahead of in the heap.
FirstAvailable ==
    { q \in mergeQueue :
        /\ BothAvailable(q)
        /\ \A r \in mergeQueue :
               BothAvailable(r) => queued_cmp(r, q) # "Greater" }

\* One round of the loop of bin_contexts_nodes: pairs are popped until one of
\* two available nodes comes, its nodes are merged into a new node and the
\* pairs of the new node with every available node are queued.  The heap
\* pops any of its greatest elements.  A pair with a node that is no longer
\* available is never used again, whether it was popped or not: the model
\* takes those that compare equal to the pair merged as popped with the ones
\* ahead of it.  After the last round the tree is made of `nodes` and the
\* queue and `available` are dropped.
MergeStep ==
    /\ phase = "binning"
    /\ binPc = "merge"
    /\ IF FirstAvailable = {}
       THEN /\ binPc' = "panicked"
            /\ mergeQueue' = {}
            /\ UNCHANGED <<nodes, available>>
       ELSE \E current \in FirstAvailable :
              LET ahead == { r \in mergeQueue : queued_cmp(r, current) = "Greater" }
                  ties == { r \in mergeQueue :
                              /\ ~BothAvailable(r)
                              /\ queued_cmp(r, current) = "Equal" }
                  left_child == current.left_index
                  right_child == current.right_index
                  gone == [available EXCEPT ![left_child + 1] = FALSE,
                                            ![right_child + 1] = FALSE]
                  pushed == Append(nodes,
                                new_from_merge(At(nodes, left_child).context,
                                               At(nodes, right_child).context,
                                               left_child, right_child))
                  current_index == Len(pushed) - 1
                  new_items == { from_merge(pushed, i, current_index) :
                                   i \in { k \in 0..(Len(gone) - 1) : At(gone, k) } }
                  input_length == Cardinality({ k \in 1..Len(nodes) : nodes[k].leaf })
              IN  /\ nodes' = pushed
                  /\ IF Len(pushed) = 2 * input_length - 1
                     THEN /\ binPc' = "tree"
                          /\ available' = <<>>
                          /\ mergeQueue' = {}
                     ELSE /\ binPc' = "merge"
                          /\ available' = Append(gone, TRUE)
                          /\ mergeQueue' =
                                (mergeQueue \ (ahead \cup ties \cup {current}))
                                   \cup new_items
    /\ UNCHANGED <<num_contexts, openQueue, result>>
    /\ UNCHANGED <<idnVars, clusterVars, codingVars>>

\* ContextTree::traverse up to its first loop.
Traverse(k) ==
    /\ phase = "binning"
    /\ binPc = "tree"
    /\ num_contexts' = k
    /\ IF k > 0
       THEN /\ openQueue' = {Len(nodes) - 1}
            /\ binPc' = "traverse"
       ELSE /\ binPc' = "panicked"
            /\ UNCHANGED openQueue
    /\ UNCHANGED <<nodes, available, mergeQueue, result>>
    /\ UNCHANGED <<idnVars, clusterVars, codingVars>>

\* queue.pop() of ContextTree::traverse: any greatest element of the heap.
Top(heap) ==
    { i \in heap : \A j \in heap : indexed_cmp(nodes, j, i) # "Greater" }

\* The first loop of traverse goes on.
Expanding ==
    /\ openQueue # {}
    /\ Len(result) + Cardinality(openQueue) < num_contexts

\* result.push(self.combine_contexts(index)); ComplexContext::new panics on
\* a spec that comes twice.
PushCombined(index) ==
    LET combined == combine_contexts(nodes, index)
    IN  IF all_unique(combined.specs)
        THEN /\ result' = Append(result, combined)
             /\ binPc' = binPc
        ELSE /\ binPc' = "panicked"
             /\ UNCHANGED result

\* One round of the first loop of ContextTree::traverse.
TraverseExpand ==
    /\ phase = "binning"
    /\ binPc = "traverse"
    /\ Expanding
    /\ \E index \in Top(openQueue) :
         LET node == At(nodes, index)
         IN  IF node.leaf
             THEN /\ openQueue' = openQueue \ {index}
                  /\ PushCombined(index)
             ELSE /\ openQueue' = (openQueue \ {index})
                                    \cup {node.left_child, node.right_child}
                  /\ UNCHANGED <<result, binPc>>
    /\ UNCHANGED <<nodes, available, mergeQueue, num_contexts>>
    /\ UNCHANGED <<idnVars, clusterVars, codingVars>>

\* One round of the second loop of ContextTree::traverse.
TraverseCollect ==
    /\ phase = "binning"
    /\ binPc = "traverse"
    /\ ~Expanding
    /\ openQueue # {}
    /\ \E index \in Top(openQueue) :
         /\ openQueue' = openQueue \ {index}
         /\ PushCombined(index)
    /\ UNCHANGED <<nodes, available, mergeQueue, num_contexts>>
    /\ UNCHANGED <<idnVars, clusterVars, codingVars>>

\* ContextTree::traverse returns `result`.
TraverseReturn ==
    /\ phase = "binning"
    /\ binPc = "traverse"
    /\ openQueue = {}
    /\ binPc' = "done"
    /\ UNCHANGED <<nodes, available, mergeQueue, num_contexts, openQueue, result>>
    /\ UNCHANGED <<idnVars, clusterVars, codingVars>>

NextB ==
    \/ MergeStep
    \/ \E k \in 0..((Len(nodes) + 1) \div 2 + 1) : Traverse(k)
    \/ TraverseExpand
    \/ TraverseCollect
    \/ TraverseReturn

SpecB == InitB /\ [][NextB]_vars


\* ================================================================ claims
\* The positions of `out` that hold a part of a block frame.
FrameParts(out) == {p \in 1..Len(out) : out[p].part # "idn_header"}

\* The header of block i and, right after it, its payload are in `out`.
WholeFrame(out, i) ==
    \E p \in 1..(Len(out) - 1) :
        /\ out[p].part = "header" /\ out[p].idx = i
        /\ out[p + 1].part = "payload" /\ out[p + 1].idx = i

\* The write of block i ended with an I/O error.
WriteFailed(i) ==
    \/ \E k \in 1..Len(failLog) : failLog[k].err = IoError(i)
    \/ \E j \in running : j.kind = "block" /\ j.res = IoError(i)
    \/ disp.err = IoError(i)
    \/ caller.err = IoError(i)
    \/ errorSlot = IoError(i)
    \/ \E k \in 1..Len(results) : results[k].err = IoError(i)

RECURSIVE SliceIds(_)
SliceIds(payload) ==
    IF payload = <<>> THEN <<>>
    ELSE (IF Head(payload).tag = "Sequence" THEN <<Head(payload).id>> ELSE <<>>)
         \o SliceIds(Tail(payload))

\* The ids of the sequences whose slices are in `out`, in output order.
RECURSIVE WrittenIds(_)
WrittenIds(out) ==
    IF out = <<>> THEN <<>>
    ELSE SliceIds(Head(out).payload) \o WrittenIds(Tail(out))

IsPrefix(s, t) == Len(s) <= Len(t) /\ \A i \in 1..Len(s) : s[i] = t[i]

\* C1: whatever the interleaving of the pool's threads, the parts of block
\* frames reach the output in submission order: block indices never go down,
\* a payload directly follows its own header, a part of block i+1 is in the
\* output only when the whole frame of block i is (or the write of block i
\* ended with an I/O error), and without I/O errors the sequences in the
\* output are a prefix of the accepted sequences in their accepted order.
C1_SubmissionOrder ==
    phase = "compress" =>
      /\ \A p, q \in FrameParts(output) :
           p < q =>
             \/ output[p].idx < output[q].idx
             \/ /\ output[p].idx = output[q].idx
                /\ q = p + 1
                /\ output[p].part = "header"
                /\ output[q].part = "payload"
      /\ \A q \in FrameParts(output) :
           output[q].idx > 0 =>
             WholeFrame(output, output[q].idx - 1) \/ WriteFailed(output[q].idx - 1)
      /\ ioFails = 0 =>
           IsPrefix(WrittenIds(output), [i \in 1..Len(submitted) |-> submitted[i].id])

\* C1 witness: with two workers, the job of block 2 has encoded its block and
\* waits for the ordering lock while block 1 is not yet in the output.
C1_Witness ==
    /\ phase = "compress"
    /\ threadNum = 3
    /\ WholeFrame(output, 0)
    /\ ~ \E p \in FrameParts(output) : output[p].idx = 1
    /\ \E j \in running : j.kind = "block" /\ j.idx = 2 /\ j.pc = "locked"
    /\ \E j \in running : j.kind = "block" /\ j.idx = 1 /\ j.pc = "locked"

\* What the blocks 0..n-1 of the input append to the queue, block after
\* block, each block's sequences in their in-block order.
RECURSIVE AppendsOf(_)
AppendsOf(n) ==
    IF n = 0 THEN <<>>
    ELSE AppendsOf(n - 1) \o Logged(n - 1, Decoded(stream[n]).seqs)

\* C3: whatever the interleaving of the pool's threads, the decoded
\* sequences are appended to the output queue in block order: the appends
\* made so far are those of the blocks read first, one whole block after the
\* other, each block's sequences in their in-block order.
C3_BlockOrder ==
    phase = "decompress" =>
      /\ lockCur <= Len(stream)
      /\ appendLog = AppendsOf(lockCur)
      /\ \A p, q \in 1..Len(appendLog) : p < q => appendLog[p].idx <= appendLog[q].idx

\* C3 witness: with two workers, the sequences of block 0 are in the queue's
\* log, and the jobs of blocks 1 and 2 have both decoded their blocks and
\* wait for the ordering lock, block 1 holding sequences.
C3_Witness ==
    /\ phase = "decompress"
    /\ threadNum = 3
    /\ appendLog # <<>>
    /\ lockCur = 1
    /\ \E j \in running : j.kind = "block" /\ j.idx = 1 /\ j.pc = "locked" /\ j.seqs # <<>>
    /\ \E j \in running : j.kind = "block" /\ j.idx = 2 /\ j.pc = "locked"

\* Every block of the input decodes without an error and the input ends
\* with the zero-length block.
ErrorFree(input) ==
    /\ input # <<>>
    /\ input[Len(input)].hdr.length = 0
    /\ \A i \in 1..Len(input) : Decoded(input[i]).err = NoError

\* The sequences of the blocks 0..n-1 of the input, in stream order.
RECURSIVE SeqsOf(_)
SeqsOf(n) == IF n = 0 THEN <<>> ELSE SeqsOf(n - 1) \o Decoded(stream[n]).seqs

\* A next_sequence call returned Ok(None).
ReturnedNone ==
    \E k \in 1..Len(results) :
        /\ results[k].call = "next_sequence"
        /\ results[k].err = NoError
        /\ results[k].val = NoSeq

\* The consumer sees the end of the stream only after everything else: the
\* finished flag is set only when every block has appended its sequences,
\* and none is returned only when every sequence has been returned.
EndComesLast ==
    /\ dq.finished => appendLog = AppendsOf(Len(stream))
    /\ ReturnedNone => returned = SeqsOf(Len(stream))
    /\ IsPrefix(returned, SeqsOf(Len(stream)))

NoEmptyBlockInside(input) ==
    \A i \in 1..(Len(input) - 1) : Decoded(input[i]).seqs # <<>>

IsHeader(part) == part.part = "header"

\* The block headers in `out`, in output order.
HeadersOf(out) == SelectSeq(out, IsHeader)

\* C5: the block_num field of the header written i-th (counting from 0, the
\* zero-length block included) is i.
C5_BlockNumIsIndex ==
    phase = "compress" =>
      \A k \in 1..Len(HeadersOf(output)) :
          HeadersOf(output)[k].hdr.block_num = k - 1

\* Number of entries of a list of blocks that are empty.
RECURSIVE EmptyIn(_)
EmptyIn(blocks) ==
    IF blocks = <<>> THEN 0
    ELSE (IF Head(blocks) = <<>> THEN 1 ELSE 0) + EmptyIn(Tail(blocks))

\* The empty blocks on their way to the output: in the data queue, with the
\* dispatcher that is about to write them, or in a job of the pool.
EmptyPending ==
    EmptyIn(dq.data)
      + (IF disp.pc = "write" THEN EmptyIn(disp.blocks) ELSE 0)
      + EmptyIn([k \in 1..Len(queue) |->
                   IF queue[k].kind = "block" THEN queue[k].seqs ELSE <<0>>])
      + Cardinality({j \in running : j.kind = "block" /\ j.pc = "locked" /\ j.seqs = <<>>})

\* Number of zero-length block headers in `out`.
ZeroHeaders(out) ==
    Cardinality({p \in 1..Len(out) : out[p].part = "header" /\ out[p].hdr.length = 0})

\* finish() returned Ok.
FinishOk ==
    /\ results # <<>>
    /\ results[Len(results)] = Result("finish", NoError, NoSeq)

\* C6: there is never more than one empty block, in the output or on its way
\* to it; it is dispatched by the second make_block of finish() and by no
\* add_sequence; nothing is written after a zero-length block; and when
\* finish() returned Ok the output holds every accepted sequence and ends
\* with the one zero-length block.
C6_OneZeroBlockLast ==
    phase = "compress" =>
      /\ EmptyPending + ZeroHeaders(output) <= 1
      /\ EmptyPending + ZeroHeaders(output) = 1 =>
           ((caller.ctx = "fin2" /\ caller.pc # "mb_status" /\ caller.pc # "mb_add")
              \/ caller.pc \in {"fin_setfin", "fin_join", "done"}
              \/ caller.ctx = "finished")
      /\ \A p \in 1..Len(output) :
           (output[p].part = "header" /\ output[p].hdr.length = 0) =>
               \A q \in (p + 1)..Len(output) :
                   q = p + 1 /\ output[q] = OutPayload(output[p].idx, <<>>)
      /\ FinishOk =>
           /\ ZeroHeaders(output) = 1
           /\ Len(output) >= 3
           /\ output[Len(output) - 1].part = "header"
           /\ output[Len(output) - 1].hdr.length = 0
           /\ output[Len(output)].part = "payload"
           /\ WrittenIds(output) = [i \in 1..Len(submitted) |-> submitted[i].id]

\* C6 witness: with worker threads, finish() returned Ok after two blocks
\* with sequences and the zero-length block were written.
C6_Witness ==
    /\ phase = "compress"
    /\ threadNum >= 2
    /\ FinishOk
    /\ Len(HeadersOf(output)) = 3
    /\ ZeroHeaders(output) = 1

\* The input ends with the zero-length block, and the only thing wrong with
\* it is one or more blocks whose stored checksum is not the checksum of
\* their decoded sequences.
MismatchOnly(input) ==
    /\ input # <<>>
    /\ input[Len(input)].hdr.length = 0
    /\ \A i \in 1..Len(input) :
         Decoded(input[i]).err.kind \in {"None", "BlockChecksumMismatch"}
    /\ \E i \in 1..Len(input) : Decoded(input[i]).err.kind = "BlockChecksumMismatch"

\* C7: when the checksum computed over a block's decoded sequences differs
\* from the seq_checksum of its header, the error next_sequence returns is
\* the BlockChecksumMismatch of such a block, carrying the computed and the
\* stored checksum, with and without pool threads.
C7_ChecksumMismatchReturned ==
    (phase = "decompress" /\ MismatchOnly(stream)) =>
      \A k \in 1..Len(results) :
          results[k].err # NoError =>
            \E i \in 1..Len(stream) :
                /\ Decoded(stream[i]).err.kind = "BlockChecksumMismatch"
                /\ results[k].err = Decoded(stream[i]).err
                /\ results[k].err =
                     block_checksum_mismatch(Checksum(Decoded(stream[i]).seqs),
                                             stream[i].hdr.seq_checksum)

\* The k-th public call returned an error that came from the pool (not the
\* SequenceTooLong that add_sequence raises itself).
PoolError(k) ==
    /\ results[k].err # NoError
    /\ results[k].err.kind # "SequenceTooLong"

\* C8: once a job of the pool has returned an error, the first public call
\* to return an error from the pool returns the typed error value of a
\* failed job.
C8_WorkerErrorReturned ==
    failLog # <<>> =>
      \A k \in 1..Len(results) :
          (PoolError(k) /\ \A m \in 1..(k - 1) : ~PoolError(m)) =>
              \E f \in 1..Len(failLog) : failLog[f].err = results[k].err

\* The caller is inside a public call.
InCall == caller.pc \notin {"idle", "done", "dropped", "panicked"}

\* C9: with worker threads, once a job has failed, a public call that is
\* under way can still end: the system is never at a standstill (a worker
\* waiting for the ordering lock, the caller waiting for the data queue, the
\* dispatcher job or the pool) while the caller is inside a call.
C9_NoStandstillAfterFailure ==
    (phase = "decompress" /\ threadNum >= 2 /\ failLog # <<>> /\ InCall)
        => ENABLED NextD

\* C10: a job's error stored into a slot that already holds the error of an
\* earlier failed job does not replace it.
C10_FirstErrorKept ==
    [][(/\ errorSlot # NoError
        /\ errorSlot # DefaultError
        /\ Len(failLog') > Len(failLog))
         => errorSlot' = errorSlot]_vars

\* The decompressor gives back `expected`: no call fails, what has been
\* returned so far is the front of `expected`, none is returned only after
\* all of it, and a call under way is never at a standstill.
GivesBack(expected) ==
    /\ \A k \in 1..Len(results) : results[k].err = NoError
    /\ IsPrefix(returned, expected)
    /\ ReturnedNone => returned = expected
    /\ InCall => ENABLED NextD

HasLineBreak(s) == \E i \in 1..Len(s.ident) : s.ident[i] = "NL"

TouchedPool(m) ==
    \/ results[m].call \in {"finish", "next_sequence", "next_sequence_after_eof"}
    \/ PoolError(m)

\* C11: once a public call has returned an error from the pool, every later
\* call that goes to the pool returns that same error.
C11_ErrorSticks ==
    \A k, m \in 1..Len(results) :
        (k < m /\ PoolError(k) /\ TouchedPool(m)) => results[m].err = results[k].err

\* The caller is inside ThreadPool::join (from finish or next_sequence).
InJoin(c) == c.pc \in {"fin_join", "ns_join"}

\* C12: when join() on the parent pool returns, no job is queued or running
\* and no child handle is alive, and what join() returns is Ok when no job
\* failed and the error of a failed job otherwise.
C12_JoinDrainsAndReports ==
    [][(InJoin(caller) /\ ~InJoin(caller'))
         => /\ queue = <<>> /\ running = {} /\ childNum = 0
            /\ IF failLog = <<>>
               THEN errorSlot = NoError
               ELSE \E f \in 1..Len(failLog) : failLog[f].err = errorSlot]_vars

\* C13: the drop of an IdnCompressor on which finish() was not called ends
\* in a panic, never in a quiet return.
C13_DropUnfinishedPanics ==
    (phase = "compress" /\ caller.ctx = "unfinished") => caller.pc # "dropped"

\* next_sequence() has reported the end of the stream or an error.
ReportedEnd ==
    \E k \in 1..Len(results) :
        /\ results[k].call = "next_sequence"
        /\ (results[k].err # NoError \/ results[k].val = NoSeq)

\* C14: the drop of an IdnDecompressor panics when next_sequence() has not
\* yet reported the end of the stream or an error, and only then.
C14_DropWhileReadingPanics ==
    (phase = "decompress" /\ caller.ctx = "drop") =>
        (caller.pc = "panicked" <=> ~ReportedEnd)

\* C14 witness: a decompressor with worker threads is dropped after it has
\* returned a sequence and before the end of the stream; the drop panics.
C14_Witness ==
    /\ phase = "decompress"
    /\ threadNum >= 2
    /\ caller.ctx = "drop"
    /\ caller.pc = "panicked"
    /\ returned # <<>>
    /\ ~ReportedEnd


\* add_sequence has just returned SequenceTooLong.
Rejected ==
    /\ Len(results') = Len(results) + 1
    /\ results'[Len(results')].call = "add_sequence"
    /\ results'[Len(results')].err.kind = "SequenceTooLong"

\* C15: an add_sequence that returns SequenceTooLong reports the length of
\* the sequence and max_block_total_len / 2, the former above the latter, and
\* leaves the current block, the submitted sequences, the queue, the pool and
\* the output as they were; no sequence longer than max_block_total_len / 2
\* is ever stored; and a finish() that no I/O failure came in the way of
\* returns Ok, after a rejection as after anything else.
C15_CleanRejection ==
    [][/\ Rejected =>
            /\ \E s \in Sequences3 :
                   /\ s.len > maxLen \div 2
                   /\ results'[Len(results')].err =
                          sequence_too_long(s.len, maxLen \div 2)
            /\ UNCHANGED <<block, blockLength, submitted, dq, queue, running,
                           errorSlot, childNum, lockCur, disp, output, caller>>
       /\ \A k \in 1..Len(submitted') : submitted'[k].len <= maxLen \div 2
       /\ (phase = "compress" /\ caller.ctx # "finished" /\ caller'.ctx = "finished"
           /\ ioFails = 0)
              => results[Len(results)] = Result("finish", NoError, NoSeq)
      ]_vars

\* The sequence of four acids was rejected with max_block_total_len = 1, a
\* threaded finish() then returned Ok and the compressor was dropped quietly.
C15_Witness ==
    /\ phase = "compress"
    /\ maxLen = 1
    /\ threadNum >= 2
    /\ Len(results) = 2
    /\ results[1] = Result("add_sequence", sequence_too_long(4, 0), NoSeq)
    /\ FinishOk
    /\ caller.pc = "dropped"


\* Total number of acids of a block of sequences.
RECURSIVE AcidsOf(_)
AcidsOf(seqs) ==
    IF seqs = <<>> THEN 0 ELSE Head(seqs).len + AcidsOf(Tail(seqs))

\* Total number of acids of the sequence slices of a written payload.
RECURSIVE AcidsIn(_)
AcidsIn(payload) ==
    IF payload = <<>> THEN 0
    ELSE (IF Head(payload).tag = "Sequence" THEN Head(payload).seq_len ELSE 0)
         + AcidsIn(Tail(payload))

\* C16: the block being filled, every block handed to the data queue, held by
\* the dispatcher or by a job of the pool, and every payload written to the
\* output holds at most max_block_total_len acids, and block_length is the
\* acid count of the block being filled.
C16_BlockWithinLimit ==
    phase = "compress" =>
      /\ blockLength = AcidsOf(block)
      /\ blockLength <= maxLen
      /\ \A k \in 1..Len(dq.data) : AcidsOf(dq.data[k]) <= maxLen
      /\ \A k \in 1..Len(disp.blocks) : AcidsOf(disp.blocks[k]) <= maxLen
      /\ \A k \in 1..Len(queue) :
             queue[k].kind = "block" => AcidsOf(queue[k].seqs) <= maxLen
      /\ \A j \in running : j.kind = "block" => AcidsOf(j.seqs) <= maxLen
      /\ \A p \in 1..Len(output) : AcidsIn(output[p].payload) <= maxLen

\* Three sequences were accepted, a block holding exactly max_block_total_len
\* acids was written and another block after it.
C16_Witness ==
    /\ phase = "compress"
    /\ threadNum >= 2
    /\ Len(submitted) = 3
    /\ \E p, q \in 1..Len(output) :
           /\ p < q
           /\ output[p].part = "payload"
           /\ AcidsIn(output[p].payload) = maxLen
           /\ output[q].part = "payload"
           /\ AcidsIn(output[q].payload) > 0


\* Number of leaves of the tree in `nodes`.
LeafNum == Cardinality({ k \in 1..Len(nodes) : nodes[k].leaf })

\* The specs of result[k] as a set.
SpecsOf(k) == { result[k].specs[l] : l \in 1..Len(result[k].specs) }

\* C17: for N single-spec contexts with distinct specs and any K with
\* 1 <= K <= N, traverse(K) returns exactly K complex contexts, no spec is
\* twice in a spec list or in two of them, and every input spec is in one.
C17_TraversePartitions ==
    (phase = "binning" /\ binPc = "done" /\ num_contexts <= LeafNum) =>
      /\ Len(result) = num_contexts
      /\ \A k \in 1..Len(result) : all_unique(result[k].specs)
      /\ \A k, l \in 1..Len(result) : k # l => SpecsOf(k) \cap SpecsOf(l) = {}
      /\ UNION { SpecsOf(k) : k \in 1..Len(result) } = 1..LeafNum

\* traverse(2) over four leaves returned two complex contexts, one of them
\* with three specs.
C17_Witness ==
    /\ phase = "binning"
    /\ binPc = "done"
    /\ LeafNum = 4
    /\ num_contexts = 2
    /\ Len(result) = 2
    /\ \E k \in 1..2 : Len(result[k].specs) = 3


\* The first loop of traverse has just replaced the open node `index` by its
\* two children.
Expanded(index) ==
    /\ binPc = "traverse"
    /\ index \in openQueue
    /\ ~At(nodes, index).leaf
    /\ openQueue' = (openQueue \ {index})
                       \cup {At(nodes, index).left_child, At(nodes, index).right_child}

\* C18: the node that a round of the first loop of traverse expands has the
\* largest merge cost of the open nodes.
C18_LargestCostExpanded ==
    [][\A index \in openQueue :
          Expanded(index) =>
            \A other \in openQueue :
                node_merge_cost(At(nodes, other)) <= node_merge_cost(At(nodes, index))
      ]_vars


\* C19: traverse(0) does not panic and what it returns is the empty list.
C19_TraverseZeroEmpty ==
    [][(phase = "binning" /\ binPc = "tree" /\ binPc' # "tree" /\ num_contexts' = 0)
          => (binPc' # "panicked" /\ result' = <<>>)
      ]_vars


\* C20: two different pairs of available nodes in the queue never compare
\* equal under the order of QueuedNode, so that the pair the heap pops next
\* is determined by the queued pairs alone.
C20_TieBrokenByIndices ==
    (phase = "binning" /\ binPc = "merge") =>
      \A a, b \in mergeQueue :
          (a # b /\ BothAvailable(a) /\ BothAvailable(b))
             => queued_cmp(a, b) # "Equal"

\* ============================================================== clustering
\* Clustering::make_clusters (k-medoids over a cost table).  Centroids and
\* values are named by their index in the slices handed to make_clusters;
\* the cost calculator is the table `cost`, which fixes cost_for(value,
\* centroid) for the whole call.
MaxCentroids == 3
MaxValues == 3
MaxClusters == 3
\* The costs cost_for may return (u32 in the source; the sums below stay far
\* from 2^32).
CostValues == {0, 1}

RECURSIVE SumCost(_, _)
\* The total cost of `centroid` for the values `vals`: centroid_costs[index].
SumCost(vals, centroid) ==
    IF vals = {} THEN 0
    ELSE LET v == CHOOSE x \in vals : TRUE
         IN  cost[<<v, centroid>>] + SumCost(vals \ {v}, centroid)

\* The centroids best_centroid_for may still choose.
filter_available(avail) == { c \in centroids : At(avail, c) }

\* Clustering::best_centroid_for: the available centroid of least total cost,
\* the lowest index among equals (sorted_by_key is stable).  Its unwrap()
\* panics when no centroid is available: the callers below test that first.
best_centroid_for(avail, vals) ==
    CHOOSE c \in filter_available(avail) :
        \A d \in filter_available(avail) :
            \/ SumCost(vals, c) < SumCost(vals, d)
            \/ SumCost(vals, c) = SumCost(vals, d) /\ c <= d

\* Clustering::cluster_values: the values assigned to `cluster_index`.
cluster_values(vclusters, cluster_index) ==
    { v \in values : At(vclusters, v) = cluster_index }

\* vec[index] = value
SetAt(vec, index, value) == [vec EXCEPT ![index + 1] = value]

RECURSIVE initial_centroids(_, _, _, _)
\* make_clusters, lines 41-51: one centroid per chosen value, each one taken
\* out of centroids_available.  `ok` is FALSE when an unwrap() panicked.
initial_centroids(picks, i, best, avail) ==
    IF i > Len(picks) THEN [best |-> best, avail |-> avail, ok |-> TRUE]
    ELSE IF filter_available(avail) = {}
         THEN [best |-> best, avail |-> avail, ok |-> FALSE]
         ELSE LET best_centroid == best_centroid_for(avail, {picks[i]})
              IN  initial_centroids(picks, i + 1, Append(best, best_centroid),
                                    SetAt(avail, best_centroid, FALSE))

\* The cluster whose centroid is dearest for `value`: what lines 59-69 would
\* choose if they sorted by descending cost.
dearest_cluster_index(best, value) ==
    CHOOSE ci \in 0..(Len(best) - 1) :
        \A cj \in 0..(Len(best) - 1) :
            \/ cost[<<value, At(best, ci)>>] > cost[<<value, At(best, cj)>>]
            \/ /\ cost[<<value, At(best, ci)>>] = cost[<<value, At(best, cj)>>]
               /\ ci <= cj

\* make_clusters, lines 59-69: the cluster whose centroid is cheapest for
\* `value`, the lowest cluster index among equals.
new_cluster_index(best, value) ==
    CHOOSE ci \in 0..(Len(best) - 1) :
        \A cj \in 0..(Len(best) - 1) :
            \/ cost[<<value, At(best, ci)>>] < cost[<<value, At(best, cj)>>]
            \/ /\ cost[<<value, At(best, ci)>>] = cost[<<value, At(best, cj)>>]
               /\ ci <= cj

\* make_clusters, lines 58-75: every value moves to its cheapest cluster.
assign_values(best) ==
    [i \in 1..Len(value_clusters) |-> new_cluster_index(best, i - 1)]

RECURSIVE reelect(_, _, _, _)
\* make_clusters, lines 80-95: every cluster, in order, re-elects the best
\* centroid still available for its values.
reelect(vclusters, i, best, avail) ==
    IF i > Len(best) THEN [best |-> best, avail |-> avail, ok |-> TRUE]
    ELSE IF filter_available(avail) = {}
         THEN [best |-> best, avail |-> avail, ok |-> FALSE]
         ELSE LET best_centroid ==
                      best_centroid_for(avail, cluster_values(vclusters, i - 1))
              IN  reelect(vclusters, i + 1, [best EXCEPT ![i] = best_centroid],
                          SetAt(avail, best_centroid, FALSE))

\* The sequences choose_multiple(rand, amount) can yield: `amount` distinct
\* values, or all of them when there are fewer, in any order.
choose_multiple(amount) ==
    LET n == IF amount < Cardinality(values) THEN amount
             ELSE Cardinality(values)
    IN  { picks \in [1..n -> values] :
            \A i, j \in 1..n : i # j => picks[i] # picks[j] }

Min(a, b) == IF a < b THEN a ELSE b

\* A caller holds centroids, values, a cost calculator and num_clusters.
InitK ==
    /\ IdnIdle("clustering")
    /\ BinIdle
    /\ CodingIdle
    /\ \E nc \in 0..MaxCentroids, nv \in 0..MaxValues :
         /\ centroids = 0..(nc - 1)
         /\ values = 0..(nv - 1)
         /\ cost \in [values \X centroids -> CostValues]
    /\ num_clusters \in 0..MaxClusters
    /\ best_centroids = <<>>
    /\ centroids_available = <<>>
    /\ value_clusters = <<>>
    /\ clusters = <<>>
    /\ rounds = {}
    /\ clPc = "call"

\* make_clusters with num_clusters = 0 (lines 31-33): no cluster.
MakeNoClusters ==
    /\ clPc = "call"
    /\ num_clusters = 0
    /\ clPc' = "done"
    /\ UNCHANGED <<centroids, values, cost, num_clusters, best_centroids,
                   centroids_available, value_clusters, clusters, rounds>>
    /\ UNCHANGED <<idnVars, binVars, codingVars>>

\* make_clusters up to its loop (lines 34-52): the initial centroids are the
\* best ones for num_clusters values chosen at random.
MakeClusters ==
    /\ clPc = "call"
    /\ num_clusters # 0
    /\ LET k == Min(num_clusters, Cardinality(centroids))
           all == [c \in 1..Cardinality(centroids) |-> TRUE]
       IN  /\ num_clusters' = k
           /\ value_clusters' = [v \in 1..Cardinality(values) |-> 0]
           /\ \E picks \in choose_multiple(k) :
                LET r == initial_centroids(picks, 1, <<>>, all)
                IN  /\ best_centroids' = r.best
                    /\ centroids_available' = r.avail
                    /\ clPc' = IF r.ok THEN "loop" ELSE "panicked"
    /\ UNCHANGED <<centroids, values, cost, clusters, rounds>>
    /\ UNCHANGED <<idnVars, binVars, codingVars>>

\* One round of the loop (lines 54-107).  With values to assign and no
\* cluster the unwrap() of line 68 panics.  A round is a function of
\* best_centroids and value_clusters alone, so a loop that comes back to a
\* pair it started a round with repeats from there for ever: "cycling".
Iterate ==
    /\ clPc = "loop"
    /\ rounds' = rounds \cup {<<best_centroids, value_clusters>>}
    /\ IF values # {} /\ best_centroids = <<>>
       THEN /\ clPc' = "panicked"
            /\ UNCHANGED <<best_centroids, centroids_available, value_clusters>>
       ELSE LET assigned == assign_values(best_centroids)
                all == [c \in 1..Len(centroids_available) |-> TRUE]
                r == reelect(assigned, 1, best_centroids, all)
            IN  /\ value_clusters' = assigned
                /\ best_centroids' = r.best
                /\ centroids_available' = r.avail
                /\ clPc' = IF ~r.ok THEN "panicked"
                           ELSE IF assigned = value_clusters
                                   /\ r.best = best_centroids
                                THEN "converged"
                                ELSE IF <<r.best, assigned>> \in rounds
                                     THEN "cycling"
                                     ELSE "loop"
    /\ UNCHANGED <<centroids, values, cost, num_clusters, clusters>>
    /\ UNCHANGED <<idnVars, binVars, codingVars>>

\* Cluster::new for every cluster (lines 109-117).
ReturnClusters ==
    /\ clPc = "converged"
    /\ clusters' = [i \in 1..Len(best_centroids) |->
                      [centroid |-> best_centroids[i],
                       values |-> cluster_values(value_clusters, i - 1)]]
    /\ clPc' = "done"
    /\ UNCHANGED <<centroids, values, cost, num_clusters, best_centroids,
                   centroids_available, value_clusters, rounds>>
    /\ UNCHANGED <<idnVars, binVars, codingVars>>

NextK ==
    \/ MakeNoClusters
    \/ MakeClusters
    \/ Iterate
    \/ ReturnClusters

SpecK == InitK /\ [][NextK]_vars

\* ------------------------------------------------------------------- C21
\* C21: make_clusters returns, for any centroids, values and num_clusters,
\* exactly min(num_clusters, number of centroids) clusters, and no two of
\* them have the same centroid.  (num_clusters holds that minimum once the
\* call is past line 34, and 0 when the call returned at line 32.)
C21_ClusterCount ==
    /\ clPc # "panicked"
    /\ clPc = "done" =>
         /\ Len(clusters) = num_clusters
         /\ \A i, j \in 1..Len(clusters) :
              i # j => clusters[i].centroid # clusters[j].centroid

\* ------------------------------------------------------------------- C26
\* C26: make_clusters terminates for every finite set of centroids, every
\* finite set of values, every num_clusters and every cost function: its
\* loop never comes back to a pair of best_centroids and value_clusters it
\* started a round with, which is the only way the loop can run for ever.
C26_LoopEnds == clPc # "cycling"

\* The loop took three rounds, two of them changing something, and ended.
C26_Witness == clPc = "converged" /\ Cardinality(rounds) = 3

\* ================================================================ IntQueue
\* IntQueue<MAX_SINGLE_VAL, LENGTH>(u32): a queue of LENGTH digits in base
\* MAX_SINGLE_VAL packed into one integer.  A queue is the record of its two
\* const parameters and its packed state.  Every instantiation in the source
\* keeps MAX_SINGLE_VAL^LENGTH below 2^31, and so do the ones taken here, so
\* no operation below wraps.
MaxQueueLen == 2
MaxCalls == 3
\* The bases: a degenerate one, the one light generators use for acids and
\* the one generic generators use for acids.
MaxSingleVals == {1, 4, 5}

RECURSIVE Pow(_, _)
\* u32::pow
Pow(b, n) == IF n = 0 THEN 1 ELSE b * Pow(b, n - 1)

RECURSIVE BitLen(_)
\* 32 - n.leading_zeros(): the number of bits n needs.
BitLen(n) == IF n = 0 THEN 0 ELSE 1 + BitLen(n \div 2)

RECURSIVE calc_default_state(_, _, _, _)
\* IntQueue::calc_default_state, MAX_SINGLE_VAL made a parameter.
calc_default_state(max, cur_state, value, length) ==
    IF length = 0 THEN 0
    ELSE calc_default_state(max, cur_state * max + value, value, length - 1)

\* IntQueue::with_state
with_state(max, len, state) == [max |-> max, len |-> len, state |-> state]

\* IntQueue::with_default
with_default(max, len, value) ==
    with_state(max, len, calc_default_state(max, 0, value, len))

\* IntQueue::get
get(q) == q.state

\* IntQueue::num_bits
num_bits(max, len) == BitLen(Pow(max, len) - 1)

\* IntQueue::last_pow
last_pow(q) == IF q.len = 0 THEN 0 ELSE Pow(q.max, q.len - 1)

\* IntQueue::with_pushed_back
with_pushed_back(q, value) ==
    IF q.len = 0 THEN q
    ELSE [q EXCEPT !.state = (q.state % last_pow(q)) * q.max + value]

\* IntQueue::with_popped_back
with_popped_back(q) == [q EXCEPT !.state = q.state \div q.max]

\* IntQueue::back past its assertion
back(q) == q.state % q.max

\* The queue held in intQueue.
TheQueue == with_state(intQueue.max, intQueue.len, intQueue.state)

\* intQueue after a call that left the queue `q`.
Holding(q) == [pc |-> "ready", max |-> q.max, len |-> q.len, state |-> q.state]

\* The queue type is fixed (its const parameters); no queue is built yet.
InitQ ==
    /\ IdnIdle("int_queue")
    /\ BinIdle
    /\ ClusterIdle
    /\ RansIdle
    /\ SwitchIdle
    /\ \E max \in MaxSingleVals, len \in 0..MaxQueueLen :
         intQueue = [pc |-> "type", max |-> max, len |-> len, state |-> 0]
    /\ queueLog = <<>>

notQueue == <<idnVars, binVars, clusterVars, ransVars, switchVars>>

\* IntQueue::with_default(value)
WithDefault(value) ==
    /\ intQueue.pc \in {"type", "ready"}
    /\ Len(queueLog) < MaxCalls
    /\ LET q == with_default(intQueue.max, intQueue.len, value)
       IN  /\ intQueue' = Holding(q)
           /\ queueLog' = Append(queueLog, [op |-> "with_default",
                                            arg |-> value, ret |-> q.state])
    /\ UNCHANGED notQueue

\* IntQueue::with_pushed_back(value)
WithPushedBack(value) ==
    /\ intQueue.pc = "ready"
    /\ Len(queueLog) < MaxCalls
    /\ LET q == with_pushed_back(TheQueue, value)
       IN  /\ intQueue' = Holding(q)
           /\ queueLog' = Append(queueLog, [op |-> "with_pushed_back",
                                            arg |-> value, ret |-> q.state])
    /\ UNCHANGED notQueue

\* IntQueue::with_popped_back()
WithPoppedBack ==
    /\ intQueue.pc = "ready"
    /\ Len(queueLog) < MaxCalls
    /\ LET q == with_popped_back(TheQueue)
       IN  /\ intQueue' = Holding(q)
           /\ queueLog' = Append(queueLog, [op |-> "with_popped_back",
                                            arg |-> 0, ret |-> q.state])
    /\ UNCHANGED notQueue

\* IntQueue::back(): assert!(LENGTH > 0), then the last digit.
Back ==
    /\ intQueue.pc = "ready"
    /\ Len(queueLog) < MaxCalls
    /\ IF intQueue.len > 0
       THEN /\ queueLog' = Append(queueLog, [op |-> "back", arg |-> 0,
                                             ret |-> back(TheQueue)])
            /\ UNCHANGED intQueue
       ELSE /\ intQueue' = [intQueue EXCEPT !.pc = "panicked"]
            /\ UNCHANGED queueLog
    /\ UNCHANGED notQueue

\* IntQueue::get()
Get ==
    /\ intQueue.pc = "ready"
    /\ Len(queueLog) < MaxCalls
    /\ queueLog' = Append(queueLog, [op |-> "get", arg |-> 0,
                                     ret |-> get(TheQueue)])
    /\ UNCHANGED intQueue
    /\ UNCHANGED notQueue

NextQ ==
    \/ \E value \in 0..(intQueue.max - 1) : WithDefault(value)
    \/ \E value \in 0..(intQueue.max - 1) : WithPushedBack(value)
    \/ WithPoppedBack
    \/ Back
    \/ Get

SpecQ == InitQ /\ [][NextQ]_vars

\* ------------------------------------------------------------------- C29
\* C29: on an IntQueue with LENGTH = 0 every operation (with_default,
\* with_pushed_back, with_popped_back, back, get) completes without
\* panicking, leaves the packed state at 0 and returns 0.
C29_EmptyQueueInert ==
    intQueue.len = 0 =>
        /\ intQueue.pc # "panicked"
        /\ intQueue.state = 0
        /\ \A i \in 1..Len(queueLog) : queueLog[i].ret = 0

RECURSIVE AllDigits(_, _, _)
\* The number whose `len` digits in base `max` are all `value`.
AllDigits(max, len, value) ==
    IF len = 0 THEN 0 ELSE AllDigits(max, len - 1, value) * max + value

\* ------------------------------------------------------------------- C30
\* C30: with_default(v) yields the queue whose LENGTH slots all hold v: its
\* packed state is the LENGTH-digit number in base MAX_SINGLE_VAL whose
\* digits are all v, so that back() gives v before each of LENGTH pops.
C30_DefaultFillsSlots ==
    \A i \in 1..Len(queueLog) :
        queueLog[i].op = "with_default" =>
            /\ queueLog[i].ret
                 = AllDigits(intQueue.max, intQueue.len, queueLog[i].arg)
            /\ i < Len(queueLog) /\ queueLog[i + 1].op = "back" =>
                 queueLog[i + 1].ret = queueLog[i].arg

\* ================================================ context specs and tables
\* The context spec generators of context_spec.rs and the rANS tables built
\* from a Model.  A context spec type is the record of a generator's const
\* parameters; the ones below are instantiations of the model! list whose
\* spec_num() stays below 2^31, so that no shift below leaves 32 bits.
MaxSeqLen == 3
MAX_CONTEXT_NUM == 10000

Generic(acid_order, q_score_order, position_bits) ==
    [kind |-> "generic", acid_order |-> acid_order,
     q_score_order |-> q_score_order, position_bits |-> position_bits,
     q_score_max |-> 94]

Light(acid_order, q_score_order, position_bits, q_score_max) ==
    [kind |-> "light", acid_order |-> acid_order,
     q_score_order |-> q_score_order, position_bits |-> position_bits,
     q_score_max |-> q_score_max]

ContextSpecTypes ==
    {Generic(1, 0, 0), Generic(0, 1, 0), Generic(0, 0, 2), Generic(2, 1, 6),
     Generic(4, 2, 6), Light(4, 1, 2, 16), Light(8, 0, 0, 1),
     Light(0, 3, 0, 4), Light(2, 3, 2, 8)}

\* Acid as u32: N, A, C, T, G.
AcidSymbols == 0..4
AcidN == 0
\* FastqQualityScore::get(): 0..93, of which the ends and two inner values.
QScoreSymbols == {0, 1, 47, 93}
FastqQualityScoreSize == 94

\* MAX_SINGLE_VAL of acid_context and of q_score_context.
acid_base(type) == IF type.kind = "generic" THEN 5 ELSE 4
q_score_base(type) == type.q_score_max

acid_bits(type) == num_bits(acid_base(type), type.acid_order)
q_score_bits(type) == num_bits(q_score_base(type), type.q_score_order)
total_bits(type) == acid_bits(type) + q_score_bits(type) + type.position_bits
spec_num(type) == Pow(2, total_bits(type))

\* val << bits
Shl(val, bits) == val * Pow(2, bits)

RECURSIVE BitOr(_, _)
\* a | b
BitOr(a, b) ==
    IF a = 0 THEN b
    ELSE IF b = 0 THEN a
    ELSE (IF a % 2 = 1 \/ b % 2 = 1 THEN 1 ELSE 0)
         + 2 * BitOr(a \div 2, b \div 2)

\* GenericContextSpecGenerator::new / LightContextSpecGenerator::new: both
\* queues start from with_default(0) (Acid::default() is N).
new_generator(type, length) ==
    [pc |-> "ready",
     acid_context |-> with_default(acid_base(type), type.acid_order, 0),
     q_score_context |->
         with_default(q_score_base(type), type.q_score_order, 0),
     position |-> 0, length |-> length, taken |-> FALSE, spec |-> 0]

\* position(): position * max_position_value() / length
position(type, g) == (g.position * Pow(2, type.position_bits)) \div g.length

\* current_context(), the same in both generators.
current_context(type, g) ==
    LET val0 == get(g.q_score_context)
        val1 == BitOr(Shl(val0, acid_bits(type)), get(g.acid_context))
    IN  BitOr(Shl(val1, type.position_bits), position(type, g))

\* What a light generator would push if it did not scale quality scores.
raw_q_score(type, q_score) == q_score

\* What LightContextSpecGenerator::update pushes for a quality score.
light_q_score(type, q_score) ==
    (q_score * type.q_score_max) \div FastqQualityScoreSize

\* The pair update() pushes: the symbols themselves in a generic generator,
\* (0, 0) or the shrunk symbols in a light one.
pushed(type, acid, q_score) ==
    IF type.kind = "generic" THEN <<acid, q_score>>
    ELSE IF acid = AcidN \/ q_score = 0 THEN <<0, 0>>
    ELSE <<acid - 1, light_q_score(type, q_score)>>

\* update(acid, q_score)
update(type, g, acid, q_score) ==
    LET p == pushed(type, acid, q_score)
    IN  [g EXCEPT !.acid_context = with_pushed_back(@, p[1]),
                  !.q_score_context = with_pushed_back(@, p[2]),
                  !.position = @ + 1,
                  !.taken = FALSE,
                  !.spec = 0]

\* The numbers of contexts a model may have: few, and around the limit.
ModelLens == {0, 1, 2, MAX_CONTEXT_NUM, MAX_CONTEXT_NUM + 1}

\* A Model exists: a context spec type and at most one context per spec.
InitG ==
    /\ IdnIdle("coding")
    /\ BinIdle
    /\ ClusterIdle
    /\ \E type \in ContextSpecTypes :
         \E len \in { n \in ModelLens : n <= spec_num(type) } :
           model = [pc |-> "given", context_spec_type |-> type, len |-> len]
    /\ ransModel = [pc |-> "none"]
    /\ generator = NoGenerator
    /\ QueueIdle
    /\ SwitchIdle

notCoding == <<idnVars, binVars, clusterVars, queueVars, switchVars>>

\* RansEncModel::from_model / RansDecModel::from_model: check_model panics
\* when the model has more than MAX_CONTEXT_NUM contexts; otherwise there is
\* one table per context after a dummy one, and a map with spec_num()
\* entries.
FromModel(side) ==
    /\ model.pc = "given"
    /\ ransModel.pc = "none"
    /\ ransModel' =
         IF model.len > MAX_CONTEXT_NUM
         THEN [pc |-> "panicked", side |-> side, contexts |-> 0, map |-> 0]
         ELSE [pc |-> "built", side |-> side, contexts |-> model.len + 1,
               map |-> spec_num(model.context_spec_type)]
    /\ UNCHANGED <<model, generator>>
    /\ UNCHANGED notCoding

\* ContextSpecType::generator(length) for the next sequence.
NewGenerator(length) ==
    /\ ransModel.pc = "built"
    /\ \/ generator = NoGenerator
       \/ generator.pc = "ready" /\ generator.position = generator.length
    /\ generator' = new_generator(model.context_spec_type, length)
    /\ UNCHANGED <<model, ransModel>>
    /\ UNCHANGED notCoding

\* current_context() for the next symbol, and context_for() on what it
\* returned: self.map[spec.get()] panics when the index is out of bounds.
CurrentContext ==
    /\ generator.pc = "ready"
    /\ generator.position < generator.length
    /\ ~generator.taken
    /\ LET spec == current_context(model.context_spec_type, generator)
       IN  generator' = [generator EXCEPT
                            !.taken = TRUE,
                            !.spec = spec,
                            !.pc = IF spec < ransModel.map THEN "ready"
                                   ELSE "panicked"]
    /\ UNCHANGED <<model, ransModel>>
    /\ UNCHANGED notCoding

\* update(acid, q_score) with the symbol just coded.
Update(acid, q_score) ==
    /\ generator.pc = "ready"
    /\ generator.taken
    /\ generator' = update(model.context_spec_type, generator, acid, q_score)
    /\ UNCHANGED <<model, ransModel>>
    /\ UNCHANGED notCoding

NextG ==
    \/ \E side \in {"enc", "dec"} : FromModel(side)
    \/ \E length \in 0..MaxSeqLen : NewGenerator(length)
    \/ CurrentContext
    \/ \E acid \in AcidSymbols, q_score \in QScoreSymbols :
         Update(acid, q_score)

SpecG == InitG /\ [][NextG]_vars

\* ------------------------------------------------------------------- C22
\* C22: building the rANS tables of an encoder or a decoder from a model
\* with more than 10,000 contexts is rejected by returning a model-state
\* error to the caller.
C22_LargeModelRejected ==
    model.pc = "given" /\ model.len > MAX_CONTEXT_NUM =>
        ransModel.pc \in {"none", "error"}

\* ------------------------------------------------------------------- C28
\* C28: every ContextSpec current_context() returns while a sequence of
\* length L is coded (positions 0..L-1, after updates with in-range symbols)
\* is below spec_num() of its type, so that context_for() never indexes the
\* map out of bounds.
C28_SpecBelowSpecNum ==
    generator # NoGenerator =>
        /\ generator.pc # "panicked"
        /\ generator.spec < spec_num(model.context_spec_type)

\* The last symbol of a sequence of MaxSeqLen symbols has got its spec from
\* a generator with all three parts, each of them non-zero.
C28_Witness ==
    /\ generator # NoGenerator
    /\ generator.taken
    /\ model.context_spec_type = Generic(2, 1, 6)
    /\ generator.length = MaxSeqLen
    /\ generator.position = MaxSeqLen - 1
    /\ get(generator.acid_context) > 5
    /\ get(generator.q_score_context) = 93
    /\ generator.spec
         = BitOr(Shl(BitOr(Shl(93, 5), get(generator.acid_context)), 6),
                 position(model.context_spec_type, generator))

C27_CheapestAvailablePair ==
    [][(phase = "binning" /\ binPc = "merge") =>
         /\ binPc' # "panicked"
         /\ Len(nodes') = Len(nodes) + 1
         /\ LET merged == nodes'[Len(nodes')]
            IN  /\ merged.left_child # merged.right_child
                /\ At(available, merged.left_child)
                /\ At(available, merged.right_child)
                /\ \A i, j \in 0..(Len(nodes) - 1) :
                     (i < j /\ At(available, i) /\ At(available, j)) =>
                         merged.merge_cost <= from_merge(nodes, i, j).merge_cost]_vars

\* The last of MaxLeaves - 1 steps is done; a pair of merge cost 0 was merged
\* first and the root, the last pair left, cost more than any other merge.
C27_Witness ==
    /\ phase = "binning"
    /\ binPc = "tree"
    /\ Len(nodes) = 2 * MaxLeaves - 1
    /\ nodes[MaxLeaves + 1].merge_cost = 0
    /\ nodes[MaxLeaves + 2].merge_cost > 0
    /\ nodes[Len(nodes)].merge_cost > nodes[MaxLeaves + 2].merge_cost

\* ======================================================== model switching
\* One IdnBlockCompressor staging the slices of its block, and one
\* IdnBlockDecompressor replaying them.  The model provider is the list of
\* the types of its models; a model is named by its index in the provider.
\* The identifiers slice plays no part in the choice of models and is left
\* out.  A sequence slice carries, in am and qm, the models its data was
\* encoded with.
MaxModels == 4
ModelTypes == {"Acids", "QualityScores"}
\* The number of values of a u8; None of an Option<u8> is one beyond them.
U8 == Pow(2, 8)
None == U8

\* The models of a provider with the given type, as Rust indices.
ModelsOfType(provider, type) ==
    { i \in 0..(Len(provider) - 1) : At(provider, i) = type }

\* acid_enc_models().next() / q_score_enc_models().next()
FirstOfType(provider, type) ==
    CHOOSE i \in ModelsOfType(provider, type) :
        \A j \in ModelsOfType(provider, type) : i <= j

\* Nothing is staged whatever the best model is.
never_switch(current, best) == [current |-> current, slices |-> <<>>]

\* switch_to_best_acid_model_for / switch_to_best_q_score_model_for once the
\* chooser has named `best`: index is index_of(..) as u8, and a switch is
\* staged when the active model is another one.
switch_to_best_model(current, best) ==
    LET index == best % U8
    IN  IF current # index
        THEN [current |-> index, slices |-> <<SwitchModelSlice(index)>>]
        ELSE [current |-> current, slices |-> <<>>]

\* IdnBlockDecompressor::handle_switch_model_slice
handle_switch_model_slice(dec, provider, model_index) ==
    IF model_index >= Len(provider)
    THEN [dec EXCEPT !.pc = "error",
                     !.err = invalid_model_index(model_index, Len(provider))]
    ELSE IF At(provider, model_index) = "Acids"
         THEN [dec EXCEPT !.current_acid_model = model_index]
         ELSE [dec EXCEPT !.current_q_score_model = model_index]

\* IdnBlockDecompressor::handle_sequence_slice: the sequence is decoded with
\* the active models, which `used` records.
handle_sequence_slice(dec) ==
    IF dec.current_acid_model = None
    THEN [dec EXCEPT !.pc = "error", !.err = no_active_model(0)]
    ELSE IF dec.current_q_score_model = None
    THEN [dec EXCEPT !.pc = "error", !.err = no_active_model(1)]
    ELSE [dec EXCEPT !.used = Append(@, <<dec.current_acid_model,
                                          dec.current_q_score_model>>)]

\* IdnBlockCompressor::new and IdnBlockDecompressor::new: a provider, the
\* fast option, a number of sequences to write, and no active model on
\* either side.
InitS ==
    /\ IdnIdle("block")
    /\ BinIdle
    /\ ClusterIdle
    /\ RansIdle
    /\ QueueIdle
    /\ \E n \in 0..MaxModels :
         \E provider \in [1..n -> ModelTypes], fast \in BOOLEAN,
            todo \in 0..MaxSeqs :
           blockEnc = [pc |-> "new", provider |-> provider, fast |-> fast,
                       todo |-> todo, current_acid_model |-> None,
                       current_q_score_model |-> None, slices |-> <<>>]
    /\ blockDec = [pc |-> "new", current_acid_model |-> None,
                   current_q_score_model |-> None, next |-> 1,
                   used |-> <<>>, err |-> NoError]

notSwitch == <<idnVars, binVars, clusterVars, ransVars, queueVars>>

\* prepare_to_write up to its loop (lines 83-102): nothing for an empty
\* block; in fast mode the provider must hold two models and both switches
\* are staged at once; the unwrap() of a default model panics when the
\* provider has no model of that type.
PrepareToWrite ==
    /\ blockEnc.pc = "new"
    /\ blockEnc' =
         IF blockEnc.todo = 0 THEN [blockEnc EXCEPT !.pc = "staged"]
         ELSE IF blockEnc.fast /\ Len(blockEnc.provider) # 2
         THEN [blockEnc EXCEPT !.pc = "panicked"]
         ELSE IF \E type \in ModelTypes :
                     ModelsOfType(blockEnc.provider, type) = {}
         THEN [blockEnc EXCEPT !.pc = "panicked"]
         ELSE [blockEnc EXCEPT
                  !.pc = "sequences",
                  !.slices = IF blockEnc.fast
                             THEN <<SwitchModelSlice(0), SwitchModelSlice(1)>>
                             ELSE <<>>]
    /\ UNCHANGED blockDec
    /\ UNCHANGED notSwitch

\* One round of the loop of prepare_to_write (lines 104-117): the default
\* models in fast mode; otherwise the models the chooser names, which may be
\* any acid model and any quality score model of the provider.
WriteSequence(acid_model, q_score_model) ==
    /\ blockEnc.pc = "sequences"
    /\ acid_model \in ModelsOfType(blockEnc.provider, "Acids")
    /\ q_score_model \in ModelsOfType(blockEnc.provider, "QualityScores")
    /\ blockEnc.fast =>
         /\ acid_model = FirstOfType(blockEnc.provider, "Acids")
         /\ q_score_model = FirstOfType(blockEnc.provider, "QualityScores")
    /\ LET a == IF blockEnc.fast
                THEN never_switch(blockEnc.current_acid_model, acid_model)
                ELSE switch_to_best_model(blockEnc.current_acid_model,
                                          acid_model)
           q == IF blockEnc.fast
                THEN never_switch(blockEnc.current_q_score_model,
                                  q_score_model)
                ELSE switch_to_best_model(blockEnc.current_q_score_model,
                                          q_score_model)
           s == [id |-> blockEnc.todo, len |-> 1, ident |-> <<>>]
       IN  blockEnc' = [blockEnc EXCEPT
                           !.current_acid_model = a.current,
                           !.current_q_score_model = q.current,
                           !.slices = @ \o a.slices \o q.slices
                                        \o <<SequenceSlice(s, acid_model,
                                                           q_score_model)>>,
                           !.todo = @ - 1,
                           !.pc = IF blockEnc.todo = 1 THEN "staged"
                                  ELSE "sequences"]
    /\ UNCHANGED blockDec
    /\ UNCHANGED notSwitch

\* IdnBlockDecompressor::next_sequence_internal on the next slice of the
\* block the compressor produced.
ReadSlice ==
    /\ blockEnc.pc = "staged"
    /\ blockDec.pc \in {"new", "read"}
    /\ IF blockDec.next > Len(blockEnc.slices)
       THEN blockDec' = [blockDec EXCEPT !.pc = "done"]
       ELSE LET sl == blockEnc.slices[blockDec.next]
                dec == [blockDec EXCEPT !.pc = "read", !.next = @ + 1]
            IN  blockDec' =
                  IF sl.tag = "SwitchModel"
                  THEN handle_switch_model_slice(dec, blockEnc.provider,
                                                 sl.model_index)
                  ELSE handle_sequence_slice(dec)
    /\ UNCHANGED blockEnc
    /\ UNCHANGED notSwitch

NextS ==
    \/ PrepareToWrite
    \/ \E acid_model, q_score_model \in 0..(MaxModels - 1) :
         WriteSequence(acid_model, q_score_model)
    \/ ReadSlice

SpecS == InitS /\ [][NextS]_vars

\* The sequence slices among `slices`, in order.
SequenceSlicesOf(slices) == SelectSeq(slices, LAMBDA sl : sl.tag = "Sequence")

\* ------------------------------------------------------------------- C25
\* C25: for every block the compressor produces, in normal and in fast
\* mode, replaying its slices from the state with no active model finds, at
\* every sequence slice, an active acid model and an active quality score
\* model, and they are the models the encoder used for that sequence.
C25_ReplayFindsEncoderModels ==
    blockEnc.pc = "staged" =>
        /\ blockDec.pc # "error"
        /\ \A i \in 1..Len(blockDec.used) :
             blockDec.used[i] = <<SequenceSlicesOf(blockEnc.slices)[i].am,
                                  SequenceSlicesOf(blockEnc.slices)[i].qm>>

\* A block of MaxSeqs sequences written in normal mode, with a switch of the
\* acid model and a switch of the quality score model after the first
\* sequence, has been replayed to its end.
C25_Witness ==
    /\ blockEnc.pc = "staged"
    /\ ~blockEnc.fast
    /\ blockDec.pc = "done"
    /\ Len(blockDec.used) = MaxSeqs
    /\ blockDec.used[1][1] # blockDec.used[2][1]
    /\ blockDec.used[1][2] # blockDec.used[2][2]

\* A block of MaxSeqs sequences written in fast mode has been replayed.
C25_WitnessFast ==
    /\ blockEnc.pc = "staged"
    /\ blockEnc.fast
    /\ blockDec.pc = "done"
    /\ Len(blockDec.used) = MaxSeqs

\* ------------------------------------------------------------------- C24
\* The steps of code that is already running: the threads of the pool, the
\* dispatcher job, the block jobs and the public call under way.  What is
\* left out is the caller's choice to make another call or to drop.
Running ==
    \/ MakeBlockStatus
    \/ MakeBlockAdd
    \/ MakeBlockForeground
    \/ MakeBlockJoin
    \/ FinishSetFinished
    \/ FinishJoin
    \/ PoolStartC
    \/ DispRetrieve
    \/ DispWriteBlock
    \/ DispExecStatus
    \/ DispReturn
    \/ \E j \in running : BlockWrite(j)
    \/ \E j \in running : BlockFailed(j)
    \/ Retrieve
    \/ NextSequenceJoin
    \/ PoolStartD
    \/ DispRead
    \/ DispExecStatusD
    \/ \E j \in running : BlockPush(j)

\* The job of the block with index i is queued or running.
BlockJob(i) ==
    \/ \E k \in 1..Len(queue) : queue[k].kind = "block" /\ queue[k].idx = i
    \/ \E j \in running : j.kind = "block" /\ j.idx = i

\* The caller is inside add_sequence, finish or next_sequence.
InPublicCall == InCall /\ caller.pc # "drop_join"

\* The job of block i has been started by a pool thread and waits in
\* IdnBlockLockGuard::new for a turn that is not its own yet.
WaitsForTurn(i) ==
    \E j \in running : j.kind = "block" /\ j.idx = i /\ j.pc = "locked" /\ i > lockCur

\* The job of the lowest unwritten index can run: a pool thread has started
\* it, or it is the next job the pool starts and a thread is free for it.
LowestCanRun ==
    \/ \E j \in running : j.kind = "block" /\ j.idx = lockCur
    \/ /\ queue # <<>>
       /\ Head(queue).kind = "block"
       /\ Head(queue).idx = lockCur
       /\ Cardinality(running) < threadNum

\* C24: on a run where no job fails, whatever thread_num and the number of
\* blocks: jobs waiting for a higher index never keep the job of the lowest
\* unwritten index from running, and running code can take a step as long as
\* a block job is left or the caller is inside add_sequence, finish() or
\* next_sequence(), so that every job gets its turn and the call returns.
C24_WorkersGetLockCallsReturn ==
    failLog = <<>> =>
        /\ (\E i \in 0..(MaxSeqs + 1) : WaitsForTurn(i)) => LowestCanRun
        /\ (InPublicCall \/ \E i \in 0..(MaxSeqs + 1) : BlockJob(i))
               => ENABLED Running

\* With two worker threads for the blocks, the job of block 1 is running
\* while block 0 still holds the turn, and no job has failed.
C24_Witness ==
    /\ threadNum = MaxThreads
    /\ failLog = <<>>
    /\ lockCur = 0
    /\ \E j \in running : j.kind = "block" /\ j.idx = 1
    /\ \E j \in running : j.kind = "block" /\ j.idx = 0

====
